---- MODULE Spec2Model ----
(***************************************************************************)
(* The web filesystem of duckdb-wasm (lib/src/io/web_filesystem.cc) and    *)
(* the file part of the WebDB facade, as a state machine.                  *)
(*                                                                         *)
(* Threads run the operations of the filesystem step by step.  A step is   *)
(* the code between two points at which the thread can block or is         *)
(* suspended: the acquisition of a file's file_mutex_ and a call into the  *)
(* host runtime.  No critical section of fs_mutex_ blocks or calls the     *)
(* host, so each of them is one step (or part of one), and fs_mutex_       *)
(* itself needs no variable.                                               *)
(***************************************************************************)
EXTENDS Integers, Sequences, FiniteSets, TLC

\* ------------------------------------------------------------------ bounds
NumThreads == 2
MaxFileId == 2
MaxHandles == 2
MaxLen == 2
\* std::numeric_limits<size_t>::max(), scaled down
SizeMax == 3
\* The chunks of a query result, the results and the statements the engine makes
MaxChunks == 2
MaxResults == 3
MaxStatements == 4
\* The databases a WebDB opens and the connections it has at a time
MaxOpens == 3
MaxConnections == 2
\* The largest size a truncation asks for where buffers are resized
MaxResize == 6

Threads == 1..NumThreads
FileIds == 1..MaxFileId
HandleIds == 1..MaxHandles

\* A text is a sequence of tokens; a URL's first token is its scheme prefix.
HttpX == <<"http://", "x">>
PathY == <<"", "y">>
Names == {HttpX, PathY}
Urls == {HttpX, PathY}

\* A byte of a buffer that was allocated but never written.
Uninit == 0
Bytes == {1, 2}
\* What the host's files hold at the start: the remote file, the local one
RemoteData == <<1, 2>>
LocalData == <<1>>

Max(a, b) == IF a > b THEN a ELSE b
Min(a, b) == IF a < b THEN a ELSE b

RECURSIVE Fill(_)
Fill(n) == IF n <= 0 THEN <<>> ELSE <<Uninit>> \o Fill(n - 1)

Take(s, n) == SubSeq(s, 1, Min(n, Len(s)))

\* ------------------------------------------------------------ DataBuffer
\* mem: the capacity_ bytes of data_; size: size_
NoBuf == [some |-> FALSE, mem |-> <<>>, size |-> 0]

\* DataBuffer(data, size): the capacity is the size
DataBuffer(data) == [some |-> TRUE, mem |-> data, size |-> Len(data)]

\* DataBuffer::Get: the size_ bytes of the buffer
Data(b) == SubSeq(b.mem, 1, b.size)

\* Variant: a Resize that always allocates exactly n bytes
C32_ResizeExact(b, n) ==
    [some |-> TRUE, mem |-> Take(b.mem, Min(b.size, n)) \o Fill(n - b.size),
     size |-> n]

\* DataBuffer::Resize
Resize(b, n) ==
    LET capacity == Len(b.mem)
        cap == Max(capacity + capacity + (capacity \div 4), n)
    IN  IF n > capacity
        THEN [some |-> TRUE, mem |-> Take(b.mem, b.size) \o Fill(cap - b.size),
              size |-> n]
        ELSE IF n < (capacity \div 2)
        THEN [some |-> TRUE, mem |-> Take(b.mem, n), size |-> n]
        ELSE [some |-> TRUE, mem |-> b.mem, size |-> n]

\* --------------------------------------------------------------- protocol
hasPrefix(text, prefix) == Len(text) >= 1 /\ text[1] = prefix

inferDataProtocol(url) ==
    IF hasPrefix(url, "http://") \/ hasPrefix(url, "https://") THEN "HTTP"
    ELSE IF hasPrefix(url, "file://") THEN "NATIVE"
    ELSE "NATIVE"

\* ------------------------------------------------------------------ state
VARIABLES
    files,       \* the WebFile objects, by file id
    by_id,       \* files_by_id_: the ids that have an entry
    by_name,     \* files_by_name_: name -> file id (0: no entry)
    next_id,     \* next_file_id_
    handles,     \* the WebFileHandle objects
    pinned,      \* WebDB::pinned_web_files_: name -> handle (0: none)
    fmx,         \* file_mutex_ of each file: the exclusive owner (0: none)
    fms,         \* file_mutex_ of each file: the shared owners
    collectors,  \* FileStatisticsRegistry: name -> size of the collector (-1: none)
    ra,          \* readahead_buffers_: thread -> window
    host,        \* the host runtime's files, by url
    thr,         \* each thread's position and locals
    res,         \* the call that completed last, until the next call starts
    crashed,     \* undefined behaviour took the process down
    \* WebDB::Connection
    current_query_result,        \* current_query_result_ (NoResult: nullptr)
    current_schema,              \* current_schema_ (0: nullptr)
    current_schema_patched,      \* current_schema_patched_ (0: nullptr)
    prepared_statements,         \* prepared_statements_: id -> statement (0: no entry)
    next_prepared_statement_id,  \* next_prepared_statement_id_
    arrow_insert_options,        \* arrow_insert_options_ (0: nullopt)
    arrow_ipc_stream,            \* arrow_ipc_stream_ (NoDecoder: nullptr)
    engine,      \* duckdb::Connection: the results and statements it has made
    ret,         \* what the connection's last call returned
    \* WebDB
    config,      \* *config_
    database,    \* database_ and buffered_filesystem_: the instance they point to
    connections  \* connections_: how many there are

\* The state of the web filesystem and of the file part of the facade
filesystem == <<files, by_id, by_name, next_id, handles, pinned, fmx, fms,
                collectors, ra, host, thr, res, crashed>>

\* The state of a connection
connection == <<current_query_result, current_schema, current_schema_patched,
                prepared_statements, next_prepared_statement_id,
                arrow_insert_options, arrow_ipc_stream, engine, ret>>

\* The state of the database of the facade
webdb == <<config, database, connections>>

vars == <<filesystem, connection, webdb>>

NoUrl == <<>>
NoFile == [name |-> <<>>, proto |-> "NONE", url |-> NoUrl, size |-> 0,
           buf |-> NoBuf, fd |-> FALSE, stats |-> FALSE, hc |-> 0]
NoHandle == [file |-> 0, pos |-> 0, ra |-> 0, used |-> FALSE]
\* A completed call: its arguments (name, url, h, loc, len, arg), what it
\* returned (ok, h, n, buf, and err, the message of a failed call of the
\* facade), the file it found (f), and prev, the call that had completed just
\* before it started (kept by the positional Read only)
NoPrev == [op |-> "", ok |-> TRUE, h |-> 0, loc |-> 0, arg |-> <<>>]
NoRes == [op |-> "", ok |-> TRUE, name |-> <<>>, url |-> <<>>, h |-> 0, f |-> 0,
          n |-> 0, buf |-> <<>>, loc |-> 0, len |-> 0, arg |-> <<>>, prev |-> NoPrev,
          err |-> ""]
Idle == [pc |-> "idle", k |-> <<>>, h |-> 0, f |-> 0, name |-> <<>>, url |-> <<>>,
         have |-> FALSE, cn |-> FALSE, n |-> 0, loc |-> 0, fsz |-> 0, rb |-> 0,
         ret |-> 0, buf |-> <<>>, src |-> 0, dst |-> 0, pin |-> 0, r |-> NoRes]
\* A thread's ReadAheadBuffer: made once the thread has one in readahead_buffers_
NoWindow == [made |-> FALSE, file |-> 0, ofs |-> 0, data |-> <<>>]

\* A duckdb::QueryResult: the id tells the results apart, chunks are those
\* that Fetch has not yet handed out
NoResult == [id |-> 0, chunks |-> <<>>, success |-> TRUE]
\* The BufferingArrowIPCStreamDecoder: the number of parts it has consumed
NoDecoder == [some |-> FALSE, consumed |-> 0]
NoOptions == "none"
\* What a call returns: the status, and the buffer or id that comes with OK
NoValue == [kind |-> "none", of |-> 0, chunk |-> 0]
\* id, stmt: the statement of the call; replaced: the stream that was in
\* flight when the call reset current_query_result_
NoRet == [op |-> "", status |-> "OK", value |-> NoValue, id |-> 0, stmt |-> 0,
          replaced |-> 0]
StatementIds == 0..(SizeMax - 1)

\* WebDBConfig: the configurations there are
Configs == [path : {":memory:", "db"}, maximum_threads : {1, 2},
            emit_bigint : BOOLEAN, allow_full_http_reads : BOOLEAN]
\* The text Open is given: a JSON object that spells a configuration out, or
\* the empty text
\* A WebDBConfig as it is constructed
DefaultConfig == [path |-> ":memory:", maximum_threads |-> 1, emit_bigint |-> TRUE,
                  allow_full_http_reads |-> FALSE]
EmptyArgs == [text |-> "", object |-> DefaultConfig]
ArgsJson == {[text |-> "{...}", object |-> c] : c \in Configs} \cup {EmptyArgs}
\* WebDBConfig::ReadFrom(args_json)
ReadFrom(args_json) == IF args_json.text = "" THEN DefaultConfig ELSE args_json.object
\* The argument of Open where the caller gives none
OpenDefaultArgs == EmptyArgs

Init ==
    /\ config = ReadFrom(OpenDefaultArgs)
    /\ database = 1
    /\ connections = 0
    /\ current_query_result = NoResult
    /\ current_schema = 0
    /\ current_schema_patched = 0
    /\ prepared_statements = [i \in StatementIds |-> 0]
    /\ next_prepared_statement_id = 0
    /\ arrow_insert_options = NoOptions
    /\ arrow_ipc_stream = NoDecoder
    /\ engine = [results |-> 0, statements |-> 0]
    /\ ret = NoRet
    /\ files = [f \in FileIds |-> NoFile]
    /\ by_id = {}
    /\ by_name = [n \in Names |-> 0]
    /\ next_id = 0
    /\ handles = [h \in HandleIds |-> NoHandle]
    /\ pinned = [n \in Names |-> 0]
    /\ fmx = [f \in FileIds |-> 0]
    /\ fms = [f \in FileIds |-> {}]
    /\ collectors = [n \in Names |-> -1]
    /\ ra = [t \in Threads |-> NoWindow]
    /\ host = [u \in Urls |-> IF u = HttpX THEN RemoteData ELSE LocalData]
    /\ thr = [t \in Threads |-> Idle]
    /\ res = NoRes
    /\ crashed = FALSE

\* ---------------------------------------------------------------- helpers
\* A WebFile lives as long as a shared_ptr to it does: the two maps, the
\* handles, and the locals of the running calls.
Referenced(f, ids, names, hs, th) ==
    \/ f \in ids
    \/ \E n \in Names : names[n] = f
    \/ \E h \in HandleIds : hs[h].file = f
    \/ \E t \in Threads : th[t].f = f

Sweep(fs, ids, names, hs, th) ==
    [f \in FileIds |-> IF Referenced(f, ids, names, hs, th) THEN fs[f] ELSE NoFile]

\* The lowest handle slot that holds no handle
FreeHandles == {h \in HandleIds : ~handles[h].used}
NewHandleId == CHOOSE h \in FreeHandles : \A g \in FreeHandles : h <= g

\* WebFileHandle(file): ++file->handle_count_
HandleCtor(fs, f) == [fs EXCEPT ![f].hc = @ + 1]
NewHandle(f) == [file |-> f, pos |-> 0, ra |-> 0, used |-> TRUE]

\* AllocateFileID
AllocateFileID == next_id + 1

FileLockFree(f) == fmx[f] = 0 /\ fms[f] = {}

At(t, pc) == ~crashed /\ thr[t].pc = pc
Ready(t) == ~crashed /\ thr[t].pc = "idle"

\* A handle no running call is using
HandleIdle(h) == handles[h].used /\ \A t \in Threads : thr[t].h # h


\* What a thread's call leaves behind
Finish(t, r) ==
    /\ thr' = [thr EXCEPT ![t] = Idle]
    /\ res' = r

\* Return from a call to the caller's next step (k: the steps to return to)
Resume(t, th) ==
    IF th.k = <<>>
    THEN Finish(t, th.r)
    ELSE /\ thr' = [thr EXCEPT ![t] = [th EXCEPT !.pc = Head(th.k), !.k = Tail(th.k)]]
         /\ UNCHANGED res

Result(op, ok, name, h, f) ==
    [NoRes EXCEPT !.op = op, !.ok = ok, !.name = name, !.h = h, !.f = f]

Summary(r) == [op |-> r.op, ok |-> r.ok, h |-> r.h, loc |-> r.loc, arg |-> r.arg]

\* The outcomes of undefined behaviour: the process goes on, or it dies
UBOutcomes == {"goes_on", "dies"}

\* ------------------------------------------------- WebFileHandle::Close
\* if (!file_) return; file_ = nullptr; file_guard.try_lock()
CloseTryLock(t) ==
    /\ At(t, "c0")
    /\ LET h == thr[t].h
           f == handles[h].file
           have == FileLockFree(f)
       IN  /\ handles' = [handles EXCEPT ![h].file = 0]
           /\ fmx' = [fmx EXCEPT ![f] = IF have THEN t ELSE @]
           /\ thr' = [thr EXCEPT ![t].pc = "c1", ![t].f = f, ![t].have = have]
    /\ UNCHANGED <<files, by_id, by_name, next_id, pinned, fms, collectors, ra,
                   host, res, crashed, connection, webdb>>

\* Whether Close gives the file up once its handle is counted out
CloseLastHandle(file, have) ==
    file.hc = 0 /\ have /\ file.proto # "BUFFER"

\* Variant: a Close that forgets to count its handle out
C1_CountDownForgotten(file) == file

\* --file.handle_count_
CountDown(file) == [file EXCEPT !.hc = @ - 1]

\* fs_guard; --handle_count_; the early returns; fs_guard.unlock() before the
\* host's close
CloseCountDown(t) ==
    /\ At(t, "c1")
    /\ LET h == thr[t].h
           f == thr[t].f
           nf == [files EXCEPT ![f] = CountDown(@)]
       IN  IF CloseLastHandle(nf[f], thr[t].have)
           THEN /\ thr' = [thr EXCEPT ![t].pc = "c2"]
                /\ files' = nf
                /\ UNCHANGED <<handles, fmx, res>>
           ELSE /\ handles' = [handles EXCEPT ![h] = NoHandle]
                /\ fmx' = [fmx EXCEPT ![f] = IF thr[t].have THEN 0 ELSE @]
                /\ Resume(t, [thr[t] EXCEPT !.h = 0, !.f = 0, !.have = FALSE])
                /\ files' = Sweep(nf, by_id, by_name, handles', thr')
    /\ UNCHANGED <<by_id, by_name, next_id, pinned, fms, collectors, ra, host,
                   crashed, connection, webdb>>

\* duckdb_web_fs_file_close; fs_guard.lock(); erase from both maps.  The
\* iterator of files_by_id_.find is used unchecked: with no entry it is end().
CloseErase(t) ==
    /\ At(t, "c2")
    /\ LET h == thr[t].h
           f == thr[t].f
       IN  \E ub \in IF f \in by_id THEN {"goes_on"} ELSE UBOutcomes :
           /\ crashed' = (ub = "dies") /\ UNCHANGED <<connection, webdb>>
           /\ by_name' = [by_name EXCEPT ![files[f].name] = 0]
           /\ by_id' = by_id \ {f}
           /\ handles' = [handles EXCEPT ![h] = NoHandle]
           /\ fmx' = [fmx EXCEPT ![f] = 0]
           /\ Resume(t, [thr[t] EXCEPT !.h = 0, !.f = 0, !.have = FALSE])
           /\ files' = Sweep(files, by_id', by_name', handles', thr')
    /\ UNCHANGED <<next_id, pinned, fms, collectors, ra, host>>

\* A caller drops a handle it owns: ~WebFileHandle runs Close
DropHandle(t, h) ==
    /\ Ready(t)
    /\ HandleIdle(h)
    /\ \A n \in Names : pinned[n] # h
    /\ thr' = [thr EXCEPT ![t] = [Idle EXCEPT !.pc = "c0", !.h = h,
                                   !.r = Result("Close", TRUE, <<>>, h, handles[h].file)]]
    /\ res' = NoRes
    /\ UNCHANGED <<files, by_id, by_name, next_id, handles, pinned, fmx, fms,
                   collectors, ra, host, crashed, connection, webdb>>

\* ------------------------------------------ WebFileSystem::RegisterFileURL
\* Variant: a RegisterFileURL that gives the existing file the new URL
C5_Overwrite(name, url, size) ==
    LET f == by_name[name]
        h == NewHandleId
    IN  [ok |-> TRUE, h |-> h, f |-> IF f # 0 THEN f ELSE AllocateFileID,
         files |-> IF f # 0
                   THEN HandleCtor([files EXCEPT ![f].url = url], f)
                   ELSE [files EXCEPT ![AllocateFileID] =
                            [name |-> name, proto |-> inferDataProtocol(url),
                             url |-> url, size |-> size, buf |-> NoBuf,
                             fd |-> FALSE, stats |-> FALSE, hc |-> 1]],
         by_id |-> IF f # 0 THEN by_id ELSE by_id \cup {AllocateFileID},
         by_name |-> IF f # 0 THEN by_name ELSE [by_name EXCEPT ![name] = AllocateFileID],
         next_id |-> IF f # 0 THEN next_id ELSE AllocateFileID,
         handles |-> [handles EXCEPT ![h] = NewHandle(IF f # 0 THEN f ELSE AllocateFileID)]]

\* What the call does to the registry, and the handle it returns (0: Invalid)
RegisterFileURL(name, url, size) ==
    LET f == by_name[name]
        h == NewHandleId
        id == AllocateFileID
        base == [ok |-> FALSE, h |-> 0, f |-> f, files |-> files, by_id |-> by_id,
                 by_name |-> by_name, next_id |-> next_id, handles |-> handles]
    IN  IF f # 0
        THEN IF files[f].url = url
             THEN [base EXCEPT !.ok = TRUE, !.h = h,
                               !.files = HandleCtor(files, f),
                               !.handles = [handles EXCEPT ![h] = NewHandle(f)]]
             ELSE base
        ELSE [ok |-> TRUE, h |-> h, f |-> id,
              files |-> [files EXCEPT ![id] =
                            [name |-> name, proto |-> inferDataProtocol(url),
                             url |-> url, size |-> size, buf |-> NoBuf,
                             fd |-> FALSE, stats |-> FALSE, hc |-> 1]],
              by_id |-> by_id \cup {id},
              by_name |-> [by_name EXCEPT ![name] = id],
              next_id |-> id,
              handles |-> [handles EXCEPT ![h] = NewHandle(id)]]

\* Whether the call can be made within the bounds of the model
CanRegister(name) ==
    /\ FreeHandles # {}
    /\ by_name[name] = 0 => next_id < MaxFileId

FsRegisterFileURL(t, name, url, size) ==
    /\ Ready(t)
    /\ CanRegister(name)
    /\ LET e == RegisterFileURL(name, url, size)
       IN  /\ files' = e.files
           /\ by_id' = e.by_id
           /\ by_name' = e.by_name
           /\ next_id' = e.next_id
           /\ handles' = e.handles
           /\ Finish(t, [Result("RegisterFileURL", e.ok, name, e.h, e.f) EXCEPT !.url = url])
    /\ UNCHANGED <<pinned, fmx, fms, collectors, ra, host, crashed, connection, webdb>>

\* --------------------------------------- WebFileSystem::RegisterFileBuffer
\* The critical section of the call; native: the file was NATIVE, and the
\* host's close follows with fs_mutex_ released
RegisterFileBuffer(name, data) ==
    LET f == by_name[name]
        h == NewHandleId
        id == AllocateFileID
    IN  IF f # 0
        THEN IF files[f].proto = "NATIVE"
             THEN [native |-> TRUE, h |-> h, f |-> f,
                   files |-> HandleCtor([files EXCEPT ![f].size = Len(data),
                                                      ![f].buf = DataBuffer(data)], f),
                   by_id |-> by_id, by_name |-> by_name, next_id |-> next_id,
                   handles |-> [handles EXCEPT ![h] = NewHandle(f)]]
             ELSE [native |-> FALSE, h |-> h, f |-> f,
                   files |-> HandleCtor([files EXCEPT ![f].proto = "BUFFER",
                                                      ![f].size = Len(data),
                                                      ![f].buf = DataBuffer(data)], f),
                   by_id |-> by_id, by_name |-> by_name, next_id |-> next_id,
                   handles |-> [handles EXCEPT ![h] = NewHandle(f)]]
        ELSE [native |-> FALSE, h |-> h, f |-> id,
              files |-> [files EXCEPT ![id] =
                            [name |-> name, proto |-> "BUFFER", url |-> NoUrl,
                             size |-> Len(data), buf |-> DataBuffer(data),
                             fd |-> FALSE, stats |-> FALSE, hc |-> 1]],
              by_id |-> by_id \cup {id},
              by_name |-> [by_name EXCEPT ![name] = id],
              next_id |-> id,
              handles |-> [handles EXCEPT ![h] = NewHandle(id)]]

FsRegisterFileBuffer(t, name, data) ==
    /\ Ready(t)
    /\ CanRegister(name)
    /\ LET e == RegisterFileBuffer(name, data)
           r == [Result("RegisterFileBuffer", TRUE, name, e.h, e.f) EXCEPT !.arg = data]
       IN  /\ files' = e.files
           /\ by_id' = e.by_id
           /\ by_name' = e.by_name
           /\ next_id' = e.next_id
           /\ handles' = e.handles
           /\ IF e.native
              THEN /\ thr' = [thr EXCEPT ![t] = [Idle EXCEPT !.pc = "rb1", !.h = e.h,
                                                             !.f = e.f, !.r = r]]
                   /\ res' = NoRes
              ELSE Finish(t, r)
    /\ UNCHANGED <<pinned, fmx, fms, collectors, ra, host, crashed, connection, webdb>>

\* duckdb_web_fs_file_close(file_id); fs_guard.lock(); return handle
RegisterFileBufferClosed(t) ==
    /\ At(t, "rb1")
    /\ Resume(t, [thr[t] EXCEPT !.f = 0])
    /\ UNCHANGED <<files, by_id, by_name, next_id, handles, pinned, fmx, fms,
                   collectors, ra, host, crashed, connection, webdb>>

\* ------------------------------------------------ dropping files
\* Variant: a TryDropFile that does not look at the handle_count_
C4_DropAlways(name) ==
    LET f == by_name[name]
    IN  IF f = 0
        THEN [ok |-> TRUE, by_id |-> by_id, by_name |-> by_name]
        ELSE [ok |-> TRUE, by_id |-> by_id \ {f},
              by_name |-> [by_name EXCEPT ![files[f].name] = 0]]

\* WebFileSystem::TryDropFile: the maps afterwards, and the value returned
TryDropFile(name) ==
    LET f == by_name[name]
    IN  IF f = 0
        THEN [ok |-> TRUE, by_id |-> by_id, by_name |-> by_name]
        ELSE IF files[f].hc = 0
        THEN [ok |-> TRUE, by_id |-> by_id \ {f},
              by_name |-> [by_name EXCEPT ![files[f].name] = 0]]
        ELSE [ok |-> FALSE, by_id |-> by_id, by_name |-> by_name]

FsTryDropFile(t, name) ==
    /\ Ready(t)
    /\ LET e == TryDropFile(name)
       IN  /\ by_id' = e.by_id
           /\ by_name' = e.by_name
           /\ Finish(t, Result("TryDropFile", e.ok, name, 0, by_name[name]))
           /\ files' = Sweep(files, by_id', by_name', handles, thr')
    /\ UNCHANGED <<next_id, handles, pinned, fmx, fms, collectors, ra, host, crashed, connection, webdb>>

\* WebFileSystem::DropDanglingFiles: the files it erases
Dangling == {f \in by_id : files[f].hc = 0}

FsDropDanglingFiles(t) ==
    /\ Ready(t)
    /\ by_id' = by_id \ Dangling
    /\ by_name' = [n \in Names |->
                      IF \E f \in Dangling : files[f].name = n THEN 0 ELSE by_name[n]]
    /\ Finish(t, Result("DropDanglingFiles", TRUE, <<>>, 0, 0))
    /\ files' = Sweep(files, by_id', by_name', handles, thr')
    /\ UNCHANGED <<next_id, handles, pinned, fmx, fms, collectors, ra, host, crashed, connection, webdb>>

\* WebFileSystem::SetFileDescriptor
FsSetFileDescriptor(t, f) ==
    /\ Ready(t)
    /\ IF f \in by_id
       THEN files' = [files EXCEPT ![f].fd = TRUE]
       ELSE UNCHANGED files
    /\ Finish(t, Result("SetFileDescriptor", f \in by_id, <<>>, 0, f))
    /\ UNCHANGED <<by_id, by_name, next_id, handles, pinned, fmx, fms, collectors,
                   ra, host, crashed, connection, webdb>>


\* ------------------------------------------------------------ host runtime
\* Bytes of a host file that nobody wrote read as Uninit.
\* duckdb_web_fs_file_open: it fails, or returns the size, or the size and
\* the whole file in a buffer
OpenOutcomes == {"fail", "plain", "inline"}

\* duckdb_web_fs_file_truncate
HostTruncate(hs, url, n) == [hs EXCEPT ![url] = Take(@, n) \o Fill(n - Len(@))]

\* ------------------------------------------------- WebFileSystem::Truncate
\* file_guard; the switch: data_buffer_->Resize or the host's truncate
TruncateResize(t) ==
    /\ At(t, "t0")
    /\ LET f == thr[t].f
           n == thr[t].n
       IN  /\ FileLockFree(f)
           /\ fmx' = [fmx EXCEPT ![f] = t]
           /\ IF files[f].proto = "BUFFER"
              THEN /\ files' = [files EXCEPT ![f].buf = Resize(@, n)]
                   /\ UNCHANGED host
              ELSE /\ host' = HostTruncate(host, files[f].url, n)
                   /\ UNCHANGED files
           /\ thr' = [thr EXCEPT ![t].pc = "t1"]
    /\ UNCHANGED <<by_id, by_name, next_id, handles, pinned, fms, collectors, ra,
                   res, crashed, connection, webdb>>

\* file_stats_->Resize(n) of a file that has a collector
StatsResize(cs, file, n) ==
    IF file.stats /\ cs[file.name] # -1 THEN [cs EXCEPT ![file.name] = n] ELSE cs

\* Variant: a write or truncation that leaves the read-ahead buffers alone
C27_KeepsWindows(f) == ra

\* WebFileSystem::InvalidateReadAheads
InvalidateReadAheads(f) ==
    [t \in Threads |->
        IF ra[t].file = f THEN [NoWindow EXCEPT !.made = ra[t].made] ELSE ra[t]]

\* The size Truncate resizes the statistics to
TruncateStatsSize(file, n) == file.size

\* file_stats_->Resize; file_size_ = new_size; InvalidateReadAheads
TruncateCommit(t) ==
    /\ At(t, "t1")
    /\ LET f == thr[t].f
           n == thr[t].n
       IN  /\ collectors' = StatsResize(collectors, files[f], TruncateStatsSize(files[f], n))
           /\ ra' = InvalidateReadAheads(f)
           /\ fmx' = [fmx EXCEPT ![f] = 0]
           /\ Resume(t, thr[t])
           /\ files' = [files EXCEPT ![f].size = n]
    /\ UNCHANGED <<by_id, by_name, next_id, handles, pinned, fms, host, crashed, connection, webdb>>

FsTruncate(t, h, n) ==
    /\ Ready(t)
    /\ HandleIdle(h)
    /\ \A nm \in Names : pinned[nm] # h
    /\ thr' = [thr EXCEPT ![t] = [Idle EXCEPT !.pc = "t0", !.h = h,
                                   !.f = handles[h].file, !.n = n,
                                   !.r = [Result("Truncate", TRUE, <<>>, h, handles[h].file)
                                            EXCEPT !.n = n]]]
    /\ res' = NoRes
    /\ UNCHANGED <<files, by_id, by_name, next_id, handles, pinned, fmx, fms,
                   collectors, ra, host, crashed, connection, webdb>>

\* ------------------------------------------------- WebFileSystem::OpenFile
\* The lookup in files_by_name_, the new WebFile, the handle
OpenLookup(url) ==
    LET f == by_name[url]
        h == NewHandleId
        id == AllocateFileID
    IN  IF f = 0
        THEN [h |-> h, f |-> id,
              files |-> [files EXCEPT ![id] =
                            [name |-> url, proto |-> inferDataProtocol(url),
                             url |-> url, size |-> 0, buf |-> NoBuf,
                             fd |-> FALSE, stats |-> FALSE, hc |-> 1]],
              by_id |-> by_id \cup {id},
              by_name |-> [by_name EXCEPT ![url] = id],
              next_id |-> id,
              handles |-> [handles EXCEPT ![h] = NewHandle(id)]]
        ELSE [h |-> h, f |-> f, files |-> HandleCtor(files, f), by_id |-> by_id,
              by_name |-> by_name, next_id |-> next_id,
              handles |-> [handles EXCEPT ![h] = NewHandle(f)]]

FsOpenFile(t, url, cn) ==
    /\ Ready(t)
    /\ CanRegister(url)
    /\ LET e == OpenLookup(url)
       IN  /\ files' = e.files
           /\ by_id' = e.by_id
           /\ by_name' = e.by_name
           /\ next_id' = e.next_id
           /\ handles' = e.handles
           /\ thr' = [thr EXCEPT ![t] = [Idle EXCEPT !.pc = "o1", !.h = e.h,
                                          !.f = e.f, !.name = url, !.cn = cn]]
           /\ res' = NoRes
    /\ UNCHANGED <<pinned, fmx, fms, collectors, ra, host, crashed, connection, webdb>>

\* if (auto stats = file_statistics_->FindCollector(name)) ...
OpenStatsFile(file) ==
    IF collectors[file.name] # -1 THEN [file EXCEPT !.stats = TRUE] ELSE file
OpenStatsCollectors(file) ==
    IF collectors[file.name] # -1
    THEN [collectors EXCEPT ![file.name] = file.size]
    ELSE collectors

OpenResult(t, ok) == [Result("OpenFile", ok, thr[t].name, thr[t].h, thr[t].f)
                        EXCEPT !.n = IF thr[t].cn THEN 1 ELSE 0]

\* return handle: to the engine, or to the call of the facade that opened
OpenReturn(t) ==
    IF thr[t].k = <<>>
    THEN Finish(t, OpenResult(t, TRUE))
    ELSE /\ thr' = [thr EXCEPT ![t].pc = Head(thr[t].k), ![t].k = Tail(thr[t].k)]
         /\ UNCHANGED res

\* Whether the open of a file goes to the host
OpenNeedsHost(file) ==
    file.proto = "HTTP" \/ (file.proto = "NATIVE" /\ ~file.fd)

\* file_guard; the BUFFER case and a NATIVE file with a descriptor need no host
OpenLock(t) ==
    /\ At(t, "o1")
    /\ LET f == thr[t].f
           file == files[f]
       IN  /\ FileLockFree(f)
           /\ IF OpenNeedsHost(file)
              THEN /\ fmx' = [fmx EXCEPT ![f] = t]
                   /\ thr' = [thr EXCEPT ![t].pc = "o2"]
                   /\ UNCHANGED <<files, collectors, res>>
              ELSE LET nf == IF file.proto = "BUFFER" /\ thr[t].cn
                             THEN [file EXCEPT !.buf = Resize(@, 0), !.size = 0]
                             ELSE file
                   IN  /\ files' = [files EXCEPT ![f] = OpenStatsFile(nf)]
                       /\ collectors' = OpenStatsCollectors(nf)
                       /\ OpenReturn(t)
                       /\ UNCHANGED fmx
    /\ UNCHANGED <<by_id, by_name, next_id, handles, pinned, fms, ra, host, crashed, connection, webdb>>

\* Variant: an open that keeps the file's protocol when the host hands back
\* the whole file
C26_NotPromoted(file, inline) == [file EXCEPT !.size = Len(host[file.url])]

\* The file after the host has opened it
Opened(file, inline) ==
    LET data == host[file.url]
    IN  IF inline
        THEN [file EXCEPT !.size = Len(data), !.proto = "BUFFER",
                          !.buf = DataBuffer(data)]
        ELSE [file EXCEPT !.size = Len(data)]

\* duckdb_web_fs_file_open returns
OpenHost(t, outcome) ==
    /\ At(t, "o2")
    /\ LET f == thr[t].f
       IN  IF outcome = "fail"
           THEN /\ thr' = [thr EXCEPT ![t].pc = "o_fail"]
                /\ UNCHANGED <<files, collectors, fmx, res>>
           ELSE LET nf == Opened(files[f], outcome = "inline")
                IN  IF thr[t].cn
                    THEN \* file_guard.unlock(); Truncate(*handle, 0)
                         /\ files' = [files EXCEPT ![f] = nf]
                         /\ fmx' = [fmx EXCEPT ![f] = 0]
                         /\ thr' = [thr EXCEPT ![t].pc = "t0", ![t].k = <<"o3">> \o @, ![t].n = 0]
                         /\ UNCHANGED <<collectors, res>>
                    ELSE /\ files' = [files EXCEPT ![f] = OpenStatsFile(nf)]
                         /\ collectors' = OpenStatsCollectors(nf)
                         /\ fmx' = [fmx EXCEPT ![f] = 0]
                         /\ OpenReturn(t)
    /\ UNCHANGED <<by_id, by_name, next_id, handles, pinned, fms, ra, host, crashed, connection, webdb>>

\* file_guard.lock() after the truncation; the statistics; return handle
OpenRelock(t) ==
    /\ At(t, "o3")
    /\ LET f == thr[t].f
       IN  /\ FileLockFree(f)
           /\ files' = [files EXCEPT ![f] = OpenStatsFile(@)]
           /\ collectors' = OpenStatsCollectors(files[f])
           /\ OpenReturn(t)
    /\ UNCHANGED <<by_id, by_name, next_id, handles, pinned, fmx, fms, ra, host,
                   crashed, connection, webdb>>

\* catch: fs_guard.lock(); erase the file from both maps; unlock; throw.
\* The handle of the failed open is destroyed as the exception leaves.
OpenAbort(t) ==
    /\ At(t, "o_fail")
    /\ LET f == thr[t].f
       IN  \E ub \in IF f \in by_id THEN {"goes_on"} ELSE UBOutcomes :
           /\ crashed' = (ub = "dies") /\ UNCHANGED <<connection, webdb>>
           /\ by_name' = [by_name EXCEPT ![files[f].name] = 0]
           /\ by_id' = by_id \ {f}
           /\ fmx' = [fmx EXCEPT ![f] = 0]
           /\ thr' = [thr EXCEPT ![t].pc = "c0", ![t].f = 0,
                                 ![t].r = IF thr[t].k = <<>>
                                          THEN OpenResult(t, FALSE)
                                          ELSE [@ EXCEPT !.ok = FALSE]]
    /\ UNCHANGED <<files, next_id, handles, pinned, fms, collectors, ra, host, res>>


\* ------------------------------------ WebFileSystem::CollectFileStatistics
\* FileStatisticsRegistry::EnableCollector: the collector of the path, or none
EnableCollector(name, enable) ==
    IF enable
    THEN [collectors EXCEPT ![name] = IF @ = -1 THEN 0 ELSE @]
    ELSE [collectors EXCEPT ![name] = -1]

\* Whether the call has anything to change for the file
CollectChanges(file, enable) == enable # file.stats

\* WebDB::CollectFileStatistics up to fs_guard.unlock(): the collector of the
\* registry, the lookup, the early returns, the handle
CollectFileStatistics(t, name, enable) ==
    /\ Ready(t)
    /\ FreeHandles # {}
    /\ collectors' = EnableCollector(name, enable)
    /\ LET f == by_name[name]
           h == NewHandleId
       IN  IF f # 0 /\ CollectChanges(files[f], enable)
           THEN /\ files' = HandleCtor(files, f)
                /\ handles' = [handles EXCEPT ![h] = NewHandle(f)]
                /\ thr' = [thr EXCEPT ![t] = [Idle EXCEPT !.pc = "s1", !.h = h,
                                               !.f = f, !.name = name, !.have = enable]]
                /\ res' = NoRes
           ELSE /\ Finish(t, Result("CollectFileStatistics", TRUE, name, 0, f))
                /\ UNCHANGED <<files, handles>>
    /\ UNCHANGED <<by_id, by_name, next_id, pinned, fmx, fms, ra, host, crashed, connection, webdb>>

\* file_guard; file_stats_ = collector; file_stats_->Resize(file_size_): with
\* no collector that is a call through a null pointer.  Then the local
\* handle is destroyed.
CollectAttach(t) ==
    /\ At(t, "s1")
    /\ LET f == thr[t].f
           enable == thr[t].have
       IN  /\ FileLockFree(f)
           /\ \E ub \in IF enable THEN {"goes_on"} ELSE UBOutcomes :
              /\ crashed' = (ub = "dies") /\ UNCHANGED <<connection, webdb>>
              /\ files' = [files EXCEPT ![f].stats = enable]
              /\ collectors' = StatsResize(collectors, files'[f], files[f].size)
              /\ thr' = [thr EXCEPT ![t].pc = "c0", ![t].f = 0,
                                    ![t].have = FALSE,
                                    ![t].r = Result("CollectFileStatistics", TRUE,
                                                    thr[t].name, thr[t].h, f)]
    /\ UNCHANGED <<by_id, by_name, next_id, handles, pinned, fmx, fms, ra, host, res>>

\* ------------------------------------------------------------------ WebDB
\* The facade is not synchronised: its calls come from the one API thread.
ApiThread == 1

\* BufferedFileSystem::TryDropFile: whether the page buffer lets the file go
BufferedTryDropOutcomes == {TRUE, FALSE}

\* pinned_web_files_.erase(name): the handle is destroyed, then the call goes
\* on at pc; pin keeps the handle that iter had found
Unpin(t, name, th, pc) ==
    IF pinned[name] # 0
    THEN /\ pinned' = [pinned EXCEPT ![name] = 0]
         /\ thr' = [thr EXCEPT ![t] = [th EXCEPT !.pc = "c0", !.k = <<pc>>,
                                                 !.h = pinned[name], !.pin = pinned[name]]]
    ELSE /\ thr' = [thr EXCEPT ![t] = [th EXCEPT !.pc = pc]]
         /\ UNCHANGED pinned

\* The message of a registration that the buffered filesystem refuses
StillBuffered == "File is already registered and is still buffered"

\* Variant: a registration that unpins the file before it gives up
C21_RefusedUnpinned(t, op, name) ==
    /\ Finish(t, [Result(op, FALSE, name, 0, by_name[name]) EXCEPT !.err = StillBuffered])
    /\ pinned' = [pinned EXCEPT ![name] = 0]

\* if (!buffered_filesystem_->TryDropFile(file_name)) return Invalid(...)
Refused(t, op, name) ==
    /\ Finish(t, [Result(op, FALSE, name, 0, by_name[name]) EXCEPT !.err = StillBuffered])
    /\ UNCHANGED pinned

\* WebDB::RegisterFileURL up to the registration in the web filesystem
WebDBRegisterFileURL(t, name, url, size, dropped) ==
    /\ Ready(t)
    /\ t = ApiThread
    /\ FreeHandles # {} \/ pinned[name] # 0
    /\ next_id < MaxFileId
    /\ IF dropped
       THEN /\ Unpin(t, name, [Idle EXCEPT !.name = name, !.url = url, !.n = size], "wu1")
            /\ res' = NoRes
       ELSE Refused(t, "WebDB::RegisterFileURL", name)
    /\ UNCHANGED <<files, by_id, by_name, next_id, handles, fmx, fms, collectors,
                   ra, host, crashed, connection, webdb>>

\* web_fs->RegisterFileURL; pinned_web_files_.insert
WebDBPinURL(t) ==
    /\ At(t, "wu1")
    /\ CanRegister(thr[t].name)
    /\ LET name == thr[t].name
           e == RegisterFileURL(name, thr[t].url, thr[t].n)
       IN  /\ files' = e.files
           /\ by_id' = e.by_id
           /\ by_name' = e.by_name
           /\ next_id' = e.next_id
           /\ handles' = e.handles
           /\ pinned' = [pinned EXCEPT ![name] = e.h]
           /\ Finish(t, [Result("WebDB::RegisterFileURL", e.ok, name, e.h, e.f)
                           EXCEPT !.url = thr[t].url,
                                  !.err = IF e.ok THEN "" ELSE "File already registered"])
    /\ UNCHANGED <<fmx, fms, collectors, ra, host, crashed, connection, webdb>>

\* WebDB::RegisterFileBuffer up to the registration in the web filesystem
WebDBRegisterFileBuffer(t, name, data, dropped) ==
    /\ Ready(t)
    /\ t = ApiThread
    /\ FreeHandles # {} \/ pinned[name] # 0
    /\ next_id < MaxFileId
    /\ IF dropped
       THEN /\ Unpin(t, name, [Idle EXCEPT !.name = name, !.buf = data], "wb1")
            /\ res' = NoRes
       ELSE Refused(t, "WebDB::RegisterFileBuffer", name)
    /\ UNCHANGED <<files, by_id, by_name, next_id, handles, fmx, fms, collectors,
                   ra, host, crashed, connection, webdb>>

\* web_fs->RegisterFileBuffer, up to its return or to the host's close
WebDBStoreBuffer(t) ==
    /\ At(t, "wb1")
    /\ CanRegister(thr[t].name)
    /\ LET name == thr[t].name
           e == RegisterFileBuffer(name, thr[t].buf)
           r == [Result("WebDB::RegisterFileBuffer", TRUE, name, e.h, e.f)
                   EXCEPT !.arg = thr[t].buf]
       IN  /\ files' = e.files
           /\ by_id' = e.by_id
           /\ by_name' = e.by_name
           /\ next_id' = e.next_id
           /\ handles' = e.handles
           /\ IF e.native
              THEN /\ thr' = [thr EXCEPT ![t].pc = "rb1", ![t].k = <<"wb2">>, ![t].h = e.h,
                                         ![t].f = e.f, ![t].r = r]
                   /\ UNCHANGED <<pinned, res>>
              ELSE /\ pinned' = [pinned EXCEPT ![name] = e.h]
                   /\ Finish(t, r)
    /\ UNCHANGED <<fmx, fms, collectors, ra, host, crashed, connection, webdb>>

\* buffered_filesystem_->RegisterFile; pinned_web_files_.insert
WebDBPinBuffer(t) ==
    /\ At(t, "wb2")
    /\ pinned' = [pinned EXCEPT ![thr[t].name] = thr[t].r.h]
    /\ Finish(t, thr[t].r)
    /\ UNCHANGED <<files, by_id, by_name, next_id, handles, fmx, fms, collectors,
                   ra, host, crashed, connection, webdb>>

\* WebDB::DropFile up to the drop in the web filesystem
WebDBDropFile(t, name) ==
    /\ Ready(t)
    /\ t = ApiThread
    /\ Unpin(t, name, [Idle EXCEPT !.name = name], "df1")
    /\ res' = NoRes
    /\ UNCHANGED <<files, by_id, by_name, next_id, handles, fmx, fms, collectors,
                   ra, host, crashed, connection, webdb>>

\* fs->TryDropFile(file_name)
WebDBDropFileTry(t) ==
    /\ At(t, "df1")
    /\ LET name == thr[t].name
           e == TryDropFile(name)
       IN  /\ by_id' = e.by_id
           /\ by_name' = e.by_name
           /\ Finish(t, Result("WebDB::DropFile", e.ok, name, 0, by_name[name]))
           /\ files' = Sweep(files, by_id', by_name', handles, thr')
    /\ UNCHANGED <<next_id, handles, pinned, fmx, fms, collectors, ra, host, crashed, connection, webdb>>

\* WebDB::DropFiles: pinned_web_files_.clear() destroys the handles one by one
WebDBDropFiles(t) ==
    /\ Ready(t)
    /\ t = ApiThread
    /\ thr' = [thr EXCEPT ![t] = [Idle EXCEPT !.pc = "dfs"]]
    /\ res' = NoRes
    /\ UNCHANGED <<files, by_id, by_name, next_id, handles, pinned, fmx, fms,
                   collectors, ra, host, crashed, connection, webdb>>

WebDBDropFilesUnpin(t, name) ==
    /\ At(t, "dfs")
    /\ pinned[name] # 0
    /\ Unpin(t, name, thr[t], "dfs")
    /\ UNCHANGED <<files, by_id, by_name, next_id, handles, fmx, fms, collectors,
                   ra, host, res, crashed, connection, webdb>>

\* fs->DropDanglingFiles()
WebDBDropFilesDangling(t) ==
    /\ At(t, "dfs")
    /\ \A n \in Names : pinned[n] = 0
    /\ by_id' = by_id \ Dangling
    /\ by_name' = [n \in Names |->
                      IF \E f \in Dangling : files[f].name = n THEN 0 ELSE by_name[n]]
    /\ Finish(t, Result("WebDB::DropFiles", TRUE, <<>>, 0, 0))
    /\ files' = Sweep(files, by_id', by_name', handles, thr')
    /\ UNCHANGED <<next_id, handles, pinned, fmx, fms, collectors, ra, host, crashed, connection, webdb>>


\* ---------------------------------------------------------- host file i/o
\* duckdb_web_fs_file_read
HostRead(url, n, ofs) ==
    LET data == host[url]
        safe_offset == Min(Len(data), ofs)
        read_here == Min(Len(data) - safe_offset, n)
    IN  SubSeq(data, safe_offset + 1, safe_offset + read_here)

\* duckdb_web_fs_file_write: the bytes go to location, wherever the file ends
HostWrite(hs, url, data, loc) ==
    [hs EXCEPT ![url] = Take(@, loc) \o Fill(loc - Len(@)) \o data
                        \o SubSeq(@, loc + Len(data) + 1, Len(@))]

\* ------------------------------------------------------- ReadAheadBuffer
ReadAheadMin == 2

\* ReadAheadBuffer::Read: from the window if the offset lies in it, else a
\* new window of max(len, ReadAheadMin) bytes, capped to the file size
ReadAhead(w, f, url, size, n, pos) ==
    LET hit == w.file = f /\ w.ofs <= pos /\ pos < w.ofs + Len(w.data)
        want == Min(Max(n, ReadAheadMin), size - Min(pos, size))
        fetched == HostRead(url, want, pos)
    IN  IF hit
        THEN [window |-> w,
              bytes |-> SubSeq(w.data, pos - w.ofs + 1,
                               Min(Len(w.data), pos - w.ofs + n))]
        ELSE IF want = 0 \/ n = 0
        THEN [window |-> w, bytes |-> <<>>]
        ELSE [window |-> [made |-> TRUE, file |-> f, ofs |-> pos, data |-> fetched],
              bytes |-> Take(fetched, n)]

\* ------------------------------------ WebFileSystem::Read(handle, buffer, n)
\* What a call hands back to its caller: the bytes, and their number
Returned(th, bytes, n) ==
    [th EXCEPT !.ret = n, !.r.n = @ + n, !.r.buf = @ \o bytes]

\* Variant: a read of a BUFFER file that does not stop at the end of the buffer
BufferReadUnclamped(data, pos, n) == SubSeq(data \o Fill(pos + n), pos + 1, pos + n)

\* The bytes a read of a BUFFER file copies out
BufferRead(data, pos, n) ==
    LET file_size == Len(data)
        k == Min(n, file_size - Min(pos, file_size))
    IN  SubSeq(data, pos + 1, pos + k)

\* WebFileHandle::ResolveReadAheadBuffer: whose buffer the handle reads through
ResolveReadAheadBuffer(t, h) ==
    IF handles[h].ra # 0 THEN handles[h].ra ELSE t

\* file_guard (shared); the BUFFER case; else the read-ahead buffer is resolved
ReadLock(t) ==
    /\ At(t, "rd0")
    /\ LET h == thr[t].h
           f == thr[t].f
           pos == handles[h].pos
       IN  /\ fmx[f] = 0
           /\ IF files[f].proto = "BUFFER"
              THEN LET bytes == BufferRead(Data(files[f].buf), pos, thr[t].n)
                   IN  /\ handles' = [handles EXCEPT ![h].pos = pos + Len(bytes)]
                       /\ Resume(t, Returned(thr[t], bytes, Len(bytes)))
                       /\ UNCHANGED <<fms, ra>>
              ELSE /\ fms' = [fms EXCEPT ![f] = @ \cup {t}]
                   /\ IF handles[h].ra = 0 /\ ~ra[t].made
                      THEN /\ ra' = [ra EXCEPT ![t].made = TRUE]
                           /\ handles' = [handles EXCEPT ![h].ra = t]
                      ELSE UNCHANGED <<ra, handles>>
                   /\ thr' = [thr EXCEPT ![t].pc = "rd1",
                                         ![t].rb = ResolveReadAheadBuffer(t, h)]
                   /\ UNCHANGED res
    /\ UNCHANGED <<files, by_id, by_name, next_id, pinned, fmx, collectors, host,
                   crashed, connection, webdb>>

\* ra->Read(...) with the host's read; position_ += n
ReadThrough(t) ==
    /\ At(t, "rd1")
    /\ LET h == thr[t].h
           f == thr[t].f
           pos == handles[h].pos
           e == ReadAhead(ra[thr[t].rb], f, files[f].url, files[f].size, thr[t].n, pos)
       IN  /\ ra' = [ra EXCEPT ![thr[t].rb] = e.window]
           /\ handles' = [handles EXCEPT ![h].pos = pos + Len(e.bytes)]
           /\ fms' = [fms EXCEPT ![f] = @ \ {t}]
           /\ Resume(t, Returned([thr[t] EXCEPT !.rb = 0], e.bytes, Len(e.bytes)))
    /\ UNCHANGED <<files, by_id, by_name, next_id, pinned, fmx, collectors, host,
                   crashed, connection, webdb>>

\* ----------------------------------- WebFileSystem::Write(handle, buffer, n)
\* memcpy(data + position, buffer, n): what of it lands in the buffer
BufferWrite(mem, pos, src) ==
    [i \in 1..Len(mem) |->
        IF pos < i /\ i <= pos + Len(src) THEN src[i - pos] ELSE mem[i]]

\* The BUFFER case from the copy on; the file lock is held
WriteCopy(t) ==
    LET h == thr[t].h
        f == thr[t].f
        pos == handles[h].pos
        src == thr[t].buf
    IN  \E ub \in IF pos + Len(src) <= Len(files[f].buf.mem)
                  THEN {"goes_on"} ELSE UBOutcomes :
        /\ crashed' = (ub = "dies") /\ UNCHANGED <<connection, webdb>>
        /\ files' = [files EXCEPT ![f].buf.mem = BufferWrite(@, pos, src)]
        /\ handles' = [handles EXCEPT ![h].pos = pos + Len(src)]
        /\ collectors' = StatsResize(collectors, files[f], files[f].size)
        /\ ra' = InvalidateReadAheads(f)
        /\ Resume(t, Returned(thr[t], <<>>, Len(src)))
        /\ UNCHANGED <<host, fmx>>

\* Whether a write to a BUFFER file has to grow the buffer first
WriteMustGrow(file, end) == end > file.buf.size

\* Variant: a Write that treats an HTTP file as a NATIVE one
C11_HttpAsNative(file) == IF file.proto = "HTTP" THEN "NATIVE" ELSE file.proto

\* switch (file.data_protocol_): the case a Write takes
WriteCase(file) == file.proto

\* file_guard; the switch on the protocol
WriteLock(t) ==
    /\ At(t, "w0")
    /\ LET h == thr[t].h
           f == thr[t].f
           pos == handles[h].pos
           src == thr[t].buf
           end == pos + Len(src)
       IN  /\ FileLockFree(f)
           /\ CASE WriteCase(files[f]) = "HTTP" ->
                   \* throw std::runtime_error("writing to HTTP files ...")
                   /\ Finish(t, [thr[t].r EXCEPT !.ok = FALSE])
                   /\ UNCHANGED <<files, handles, collectors, ra, host, fmx, crashed, connection, webdb>>
                [] WriteCase(files[f]) = "BUFFER" /\ WriteMustGrow(files[f], end) ->
                   \* file_guard.unlock(); Truncate(handle, max(end, file_size_))
                   /\ thr' = [thr EXCEPT ![t].pc = "t0", ![t].k = <<"w1">> \o @,
                                         ![t].n = Max(end, files[f].size)]
                   /\ UNCHANGED <<files, handles, collectors, ra, host, fmx, res,
                                  crashed, connection, webdb>>
                [] WriteCase(files[f]) = "BUFFER" /\ ~WriteMustGrow(files[f], end) ->
                   WriteCopy(t)
                [] WriteCase(files[f]) = "NATIVE" /\ end > files[f].size ->
                   \* file_guard.unlock(); appender_guard
                   /\ thr' = [thr EXCEPT ![t].pc = "wn1"]
                   /\ UNCHANGED <<files, handles, collectors, ra, host, fmx, res,
                                  crashed, connection, webdb>>
                [] WriteCase(files[f]) = "NATIVE" /\ end <= files[f].size ->
                   /\ host' = HostWrite(host, files[f].url, src, pos)
                   /\ handles' = [handles EXCEPT ![h].pos = pos + Len(src)]
                   /\ ra' = InvalidateReadAheads(f)
                   /\ Resume(t, Returned(thr[t], <<>>, Len(src)))
                   /\ UNCHANGED <<files, collectors, fmx, crashed, connection, webdb>>
    /\ UNCHANGED <<by_id, by_name, next_id, pinned, fms>>

\* file_guard.lock() after the truncation that grew the buffer; the copy
WriteAfterGrow(t) ==
    /\ At(t, "w1")
    /\ FileLockFree(thr[t].f)
    /\ WriteCopy(t)
    /\ UNCHANGED <<by_id, by_name, next_id, pinned, fms>>

\* The size of a NATIVE file after n bytes were written at pos
AppendedSize(file, pos, n) == Max(pos + n, file.size)

\* appender_guard; the host's write; file_size_; position_
WriteAppend(t) ==
    /\ At(t, "wn1")
    /\ LET h == thr[t].h
           f == thr[t].f
           pos == handles[h].pos
           src == thr[t].buf
           size == AppendedSize(files[f], pos, Len(src))
       IN  /\ FileLockFree(f)
           /\ host' = HostWrite(host, files[f].url, src, pos)
           /\ files' = [files EXCEPT ![f].size = size]
           /\ collectors' = StatsResize(collectors, files[f], size)
           /\ handles' = [handles EXCEPT ![h].pos = pos + Len(src)]
           /\ thr' = [thr EXCEPT ![t].pc = "wn2"]
    /\ UNCHANGED <<by_id, by_name, next_id, pinned, fmx, fms, ra, res, crashed, connection, webdb>>

\* InvalidateReadAheads after the append: the appender_guard is gone and
\* file_guard was unlocked, so no file lock is held
WriteAppended(t) ==
    /\ At(t, "wn2")
    /\ ra' = InvalidateReadAheads(thr[t].f)
    /\ Resume(t, Returned(thr[t], <<>>, Len(thr[t].buf)))
    /\ UNCHANGED <<files, by_id, by_name, next_id, handles, pinned, fmx, fms,
                   collectors, host, crashed, connection, webdb>>

\* ------------------------------------------------- calls on an open handle
\* A handle the engine may use: no call is using it and it is not the facade's
Usable(h) == HandleIdle(h) /\ \A n \in Names : pinned[n] # h

OnHandle(t, h, th) ==
    /\ Ready(t)
    /\ Usable(h)
    /\ thr' = [thr EXCEPT ![t] = [th EXCEPT !.h = h, !.f = handles[h].file]]
    /\ res' = NoRes

FsRead(t, h, n) ==
    /\ OnHandle(t, h, [Idle EXCEPT !.pc = "rd0", !.n = n,
                                   !.r = [Result("Read", TRUE, <<>>, h, handles[h].file)
                                            EXCEPT !.loc = handles[h].pos, !.len = n]])
    /\ UNCHANGED <<files, by_id, by_name, next_id, handles, pinned, fmx, fms,
                   collectors, ra, host, crashed, connection, webdb>>

FsWrite(t, h, data) ==
    /\ handles[h].pos + Len(data) <= MaxLen
    /\ OnHandle(t, h, [Idle EXCEPT !.pc = "w0", !.buf = data,
                                   !.r = [Result("Write", TRUE, <<>>, h, handles[h].file)
                                            EXCEPT !.loc = handles[h].pos, !.arg = data]])
    /\ UNCHANGED <<files, by_id, by_name, next_id, handles, pinned, fmx, fms,
                   collectors, ra, host, crashed, connection, webdb>>

\* WebFileSystem::Seek
FsSeek(t, h, loc) ==
    /\ Ready(t)
    /\ Usable(h)
    /\ handles' = [handles EXCEPT ![h].pos = loc]
    /\ Finish(t, [Result("Seek", TRUE, <<>>, h, handles[h].file) EXCEPT !.n = loc])
    /\ UNCHANGED <<files, by_id, by_name, next_id, pinned, fmx, fms, collectors,
                   ra, host, crashed, connection, webdb>>

\* WebFileSystem::Read(handle, buffer, nr_bytes, location) up to its loop
FsReadAt(t, h, n, loc) ==
    /\ OnHandle(t, h, [Idle EXCEPT !.pc = "pr", !.n = n, !.loc = loc,
                                   !.fsz = files[handles[h].file].size,
                                   !.r = [Result("ReadAt", TRUE, <<>>, h, handles[h].file)
                                            EXCEPT !.loc = loc, !.len = n,
                                                   !.prev = Summary(res)]])
    /\ handles' = [handles EXCEPT ![h].pos = loc]
    /\ UNCHANGED <<files, by_id, by_name, next_id, pinned, fmx, fms, collectors,
                   ra, host, crashed, connection, webdb>>

\* The condition of the loops of the positional Read and Write
PositionalGoesOn(left, location, file_size) == left > 0 /\ location < file_size

\* while (nr_bytes > 0 && location < file_size) { n = Read(...); nr_bytes -= n; }
ReadAtLoop(t) ==
    /\ At(t, "pr")
    /\ LET left == thr[t].n - thr[t].ret
       IN  IF PositionalGoesOn(left, thr[t].loc, thr[t].fsz)
           THEN /\ thr' = [thr EXCEPT ![t].pc = "rd0", ![t].k = <<"pr">> \o @,
                                      ![t].n = left, ![t].ret = 0]
                /\ UNCHANGED res
           ELSE Resume(t, thr[t])
    /\ UNCHANGED <<files, by_id, by_name, next_id, handles, pinned, fmx, fms,
                   collectors, ra, host, crashed, connection, webdb>>

\* WebFileSystem::Write(handle, buffer, nr_bytes, location) up to its loop
FsWriteAt(t, h, data, loc) ==
    /\ loc + Len(data) <= MaxLen
    /\ OnHandle(t, h, [Idle EXCEPT !.pc = "pw", !.buf = data, !.loc = loc,
                                   !.fsz = files[handles[h].file].size,
                                   !.r = [Result("WriteAt", TRUE, <<>>, h, handles[h].file)
                                            EXCEPT !.loc = loc, !.arg = data]])
    /\ handles' = [handles EXCEPT ![h].pos = loc]
    /\ UNCHANGED <<files, by_id, by_name, next_id, pinned, fmx, fms, collectors,
                   ra, host, crashed, connection, webdb>>

\* while (nr_bytes > 0 && location < file_size) { n = Write(...); writer += n; }
WriteAtLoop(t) ==
    /\ At(t, "pw")
    /\ LET left == SubSeq(thr[t].buf, thr[t].ret + 1, Len(thr[t].buf))
       IN  IF PositionalGoesOn(Len(left), thr[t].loc, thr[t].fsz)
           THEN /\ thr' = [thr EXCEPT ![t].pc = "w0", ![t].k = <<"pw">> \o @,
                                      ![t].buf = left, ![t].ret = 0]
                /\ UNCHANGED res
           ELSE Resume(t, thr[t])
    /\ UNCHANGED <<files, by_id, by_name, next_id, handles, pinned, fmx, fms,
                   collectors, ra, host, crashed, connection, webdb>>



\* ------------------------------------------------------ WebDB::Connection
\* The calls of a connection come from the one API thread and run to their
\* end; what the engine and the Arrow library answer is the caller's choice.
\* connection_.SendQuery / Prepare / Execute: a result, a result with
\* success = false, or an exception
QueryOutcomes == {"ok", "error", "exception"}
\* arrow::ImportSchema and the calls after it
ImportOutcomes == {"ok", "error"}
\* The arguments of a prepared statement: a JSON array of values, or not
ArgsOutcomes == {"ok", "invalid"}
\* QueryResult::Fetch and the serialisation of its chunk
FetchOutcomes == {"ok", "error", "serialize_error"}

ChunkCounts == 0..MaxChunks

\* The QueryResult the engine makes next, of k chunks
NewResult(k) ==
    [id |-> engine.results + 1, chunks |-> [i \in 1..k |-> i], success |-> TRUE]

Ret(op, status, value) == [NoRet EXCEPT !.op = op, !.status = status, !.value = value]

\* The same for a call that was given a statement id
RetOf(op, id, status, value) == [Ret(op, status, value) EXCEPT !.id = id]

Null == [NoValue EXCEPT !.kind = "null"]

\* Variant: a StreamQueryResult that keeps a stream that is in flight
C16_KeepsStream(op, id, result, import) ==
    /\ current_query_result' =
          IF current_query_result = NoResult THEN result ELSE current_query_result
    /\ current_schema' = result.id
    /\ current_schema_patched' = result.id
    /\ ret' = RetOf(op, id, "OK", [kind |-> "schema", of |-> result.id, chunk |-> 0])

\* WebDB::Connection::StreamQueryResult, reached from the call op, which was
\* given the statement id (0 for a call that takes none)
StreamQueryResult(op, id, result, import) ==
    /\ current_query_result' = result
    /\ IF import = "ok"
       THEN /\ current_schema' = result.id
            /\ current_schema_patched' = result.id
            /\ ret' = [RetOf(op, id, "OK",
                             [kind |-> "schema", of |-> result.id, chunk |-> 0])
                         EXCEPT !.replaced = current_query_result.id]
       ELSE /\ current_schema' = 0
            /\ current_schema_patched' = 0
            /\ ret' = RetOf(op, id, "Invalid", NoValue)

\* Variant: a MaterializeQueryResult that leaves the stream in flight alone
C37_KeepsStream(op, id, result, import) ==
    /\ UNCHANGED <<current_query_result, current_schema, current_schema_patched>>
    /\ ret' = [RetOf(op, id, "OK", [kind |-> "table", of |-> result.id, chunk |-> 0])
                 EXCEPT !.replaced = current_query_result.id]

\* WebDB::Connection::MaterializeQueryResult, reached the same way
MaterializeQueryResult(op, id, result, import) ==
    /\ current_query_result' = NoResult
    /\ current_schema' = 0
    /\ current_schema_patched' = 0
    /\ IF import = "ok"
       THEN ret' = [RetOf(op, id, "OK", [kind |-> "table", of |-> result.id, chunk |-> 0])
                      EXCEPT !.replaced = current_query_result.id]
       ELSE ret' = RetOf(op, id, "Invalid", NoValue)

\* WebDB::Connection::RunQuery
RunQuery(k, outcome, import) ==
    /\ ~crashed
    /\ engine.results < MaxResults
    /\ engine' = [engine EXCEPT !.results = @ + 1]
    /\ IF outcome = "ok"
       THEN MaterializeQueryResult("RunQuery", 0, NewResult(k), import)
       ELSE /\ ret' = Ret("RunQuery", "ExecutionError", NoValue)
            /\ UNCHANGED <<current_query_result, current_schema, current_schema_patched>>
    /\ UNCHANGED <<prepared_statements, next_prepared_statement_id,
                   arrow_insert_options, arrow_ipc_stream, filesystem, webdb>>

\* WebDB::Connection::SendQuery
SendQuery(k, outcome, import) ==
    /\ ~crashed
    /\ engine.results < MaxResults
    /\ engine' = [engine EXCEPT !.results = @ + 1]
    /\ IF outcome = "ok"
       THEN StreamQueryResult("SendQuery", 0, NewResult(k), import)
       ELSE /\ ret' = Ret("SendQuery", "ExecutionError", NoValue)
            /\ UNCHANGED <<current_query_result, current_schema, current_schema_patched>>
    /\ UNCHANGED <<prepared_statements, next_prepared_statement_id,
                   arrow_insert_options, arrow_ipc_stream, filesystem, webdb>>

\* Variant: a fetch that takes the last chunk for the end of the stream
C17_EndsEarly(result) == Len(result.chunks) <= 1

\* if (!chunk): Fetch has no chunk left to hand out
ReachedEnd(result) == result.chunks = <<>>

\* WebDB::Connection::FetchQueryResults
FetchQueryResults(outcome) ==
    /\ ~crashed
    /\ LET result == current_query_result
           chunk == Head(result.chunks)
           fetched == [result EXCEPT !.chunks = Tail(@)]
       IN  IF result = NoResult
           THEN /\ ret' = Ret("FetchQueryResults", "OK", Null)
                /\ UNCHANGED <<current_query_result, current_schema,
                               current_schema_patched, crashed>>
           ELSE IF outcome = "error" \/ ~result.success
           THEN /\ current_query_result' = [result EXCEPT !.success = FALSE]
                /\ ret' = Ret("FetchQueryResults", "ExecutionError", NoValue)
                /\ UNCHANGED <<current_schema, current_schema_patched, crashed>>
           ELSE IF ReachedEnd(result)
           THEN /\ current_query_result' = NoResult
                /\ current_schema' = 0
                /\ current_schema_patched' = 0
                /\ ret' = Ret("FetchQueryResults", "OK", Null)
                /\ UNCHANGED crashed
           ELSE IF current_schema = 0
           THEN \* arrow::ImportRecordBatch(&array, nullptr)
                \E ub \in UBOutcomes :
                    /\ crashed' = (ub = "dies")
                    /\ current_query_result' = fetched
                    /\ ret' = Ret("FetchQueryResults", "ExecutionError", NoValue)
                    /\ UNCHANGED <<current_schema, current_schema_patched>>
           ELSE /\ current_query_result' = fetched
                /\ IF outcome = "serialize_error"
                   THEN ret' = Ret("FetchQueryResults", "Invalid", NoValue)
                   ELSE ret' = Ret("FetchQueryResults", "OK",
                                   [kind |-> "batch", of |-> result.id, chunk |-> chunk])
                /\ UNCHANGED <<current_schema, current_schema_patched, crashed>>
    /\ UNCHANGED <<prepared_statements, next_prepared_statement_id,
                   arrow_insert_options, arrow_ipc_stream, engine>>
    /\ UNCHANGED <<files, by_id, by_name, next_id, handles, pinned, fmx, fms,
                   collectors, ra, host, thr, res, webdb>>

\* next_prepared_statement_id_++, and the wrap at the maximum of size_t
NextStatementId(id) == IF id + 1 = SizeMax THEN 0 ELSE id + 1

\* prepared_statements_.emplace(id, prep): an id that has an entry keeps it
Emplace(table, id, stmt) == IF table[id] = 0 THEN [table EXCEPT ![id] = stmt] ELSE table

\* WebDB::Connection::CreatePreparedStatement
CreatePreparedStatement(outcome) ==
    /\ ~crashed
    /\ engine.statements < MaxStatements
    /\ engine' = [engine EXCEPT !.statements = @ + 1]
    /\ LET prep == engine.statements + 1
           id == next_prepared_statement_id
       IN  IF outcome = "ok"
           THEN /\ next_prepared_statement_id' = NextStatementId(id)
                /\ prepared_statements' = Emplace(prepared_statements, id, prep)
                /\ ret' = [Ret("CreatePreparedStatement", "OK",
                               [NoValue EXCEPT !.kind = "id"])
                             EXCEPT !.id = id, !.stmt = prep]
           ELSE /\ ret' = Ret("CreatePreparedStatement", "ExecutionError", NoValue)
                /\ UNCHANGED <<next_prepared_statement_id, prepared_statements>>
    /\ UNCHANGED <<current_query_result, current_schema, current_schema_patched,
                   arrow_insert_options, arrow_ipc_stream, filesystem, webdb>>

\* Variant: a lookup that finds every id
C19_FindsAll(id, args, outcome) ==
    CASE args = "invalid" -> "Invalid"
      [] outcome # "ok" -> "ExecutionError"
      [] OTHER -> "OK"

\* WebDB::Connection::ExecutePreparedStatement: the status it returns
ExecutePreparedStatement(id, args, outcome) ==
    CASE prepared_statements[id] = 0 -> "KeyError"
      [] args = "invalid" -> "Invalid"
      [] outcome # "ok" -> "ExecutionError"
      [] OTHER -> "OK"

\* WebDB::Connection::RunPreparedStatement
RunPreparedStatement(id, args, outcome, k, import) ==
    /\ ~crashed
    /\ ExecutePreparedStatement(id, args, outcome) = "OK" => engine.results < MaxResults
    /\ LET status == ExecutePreparedStatement(id, args, outcome)
       IN  IF status = "OK"
           THEN /\ engine' = [engine EXCEPT !.results = @ + 1]
                /\ MaterializeQueryResult("RunPreparedStatement", id, NewResult(k), import)
           ELSE /\ ret' = RetOf("RunPreparedStatement", id, status, NoValue)
                /\ UNCHANGED <<current_query_result, current_schema,
                               current_schema_patched, engine>>
    /\ UNCHANGED <<prepared_statements, next_prepared_statement_id,
                   arrow_insert_options, arrow_ipc_stream, filesystem, webdb>>

\* WebDB::Connection::SendPreparedStatement
SendPreparedStatement(id, args, outcome, k, import) ==
    /\ ~crashed
    /\ ExecutePreparedStatement(id, args, outcome) = "OK" => engine.results < MaxResults
    /\ LET status == ExecutePreparedStatement(id, args, outcome)
       IN  IF status = "OK"
           THEN /\ engine' = [engine EXCEPT !.results = @ + 1]
                /\ StreamQueryResult("SendPreparedStatement", id, NewResult(k), import)
           ELSE /\ ret' = RetOf("SendPreparedStatement", id, status, NoValue)
                /\ UNCHANGED <<current_query_result, current_schema,
                               current_schema_patched, engine>>
    /\ UNCHANGED <<prepared_statements, next_prepared_statement_id,
                   arrow_insert_options, arrow_ipc_stream, filesystem, webdb>>

\* WebDB::Connection::ClosePreparedStatement
ClosePreparedStatement(id) ==
    /\ ~crashed
    /\ IF prepared_statements[id] = 0
       THEN /\ ret' = RetOf("ClosePreparedStatement", id, "KeyError", NoValue)
            /\ UNCHANGED prepared_statements
       ELSE /\ prepared_statements' = [prepared_statements EXCEPT ![id] = 0]
            /\ ret' = RetOf("ClosePreparedStatement", id, "OK", NoValue)
    /\ UNCHANGED <<current_query_result, current_schema, current_schema_patched,
                   next_prepared_statement_id, arrow_insert_options,
                   arrow_ipc_stream, engine, filesystem, webdb>>

\* ArrowInsertOptions::ReadFrom(options_json): the options, or a failure
OptionsOutcomes == {"create", "insert", "bad"}
\* BufferingArrowIPCStreamDecoder::Consume: the stream goes on, or has reached
\* its end, or the bytes are not a stream
ConsumeOutcomes == {"more", "eos", "error"}
\* arrow::ExportRecordBatchReader
ExportOutcomes == {"ok", "error"}
\* func->Create / func->Insert: done, or an exception
InsertOutcomes == {"ok", "exception"}
\* The parts of a stream a caller sends before its end
MaxParts == 2

\* Variant: an InsertArrowFromIPCStream that creates the decoder before it
\* reads the options
C40_DecoderFirst(options, consume, export, insert) ==
    /\ ~crashed
    /\ consume = "more" => arrow_ipc_stream.consumed < MaxParts
    /\ LET first == ~arrow_ipc_stream.some
           op == "InsertArrowFromIPCStream"
           decoder == IF first THEN [some |-> TRUE, consumed |-> 0] ELSE arrow_ipc_stream
           opts == IF first THEN options ELSE arrow_insert_options
       IN  IF first /\ options = "bad"
           THEN /\ arrow_insert_options' = NoOptions
                /\ arrow_ipc_stream' = decoder
                /\ ret' = Ret(op, "Invalid", NoValue)
           ELSE IF consume = "error" \/ (consume = "eos" /\ export = "error")
           THEN /\ arrow_insert_options' = opts
                /\ arrow_ipc_stream' = decoder
                /\ ret' = Ret(op, "Invalid", NoValue)
           ELSE IF consume = "more"
           THEN /\ arrow_insert_options' = opts
                /\ arrow_ipc_stream' = [decoder EXCEPT !.consumed = @ + 1]
                /\ ret' = Ret(op, "OK", NoValue)
           ELSE /\ arrow_insert_options' = NoOptions
                /\ arrow_ipc_stream' = NoDecoder
                /\ ret' = Ret(op, IF insert = "ok" THEN "OK" ELSE "UnknownError",
                              [NoValue EXCEPT !.kind = opts])
    /\ UNCHANGED <<current_query_result, current_schema, current_schema_patched,
                   prepared_statements, next_prepared_statement_id, engine,
                   filesystem, webdb>>

\* WebDB::Connection::InsertArrowFromIPCStream
InsertArrowFromIPCStream(options, consume, export, insert) ==
    /\ ~crashed
    /\ consume = "more" => arrow_ipc_stream.consumed < MaxParts
    /\ LET first == ~arrow_ipc_stream.some
           op == "InsertArrowFromIPCStream"
           decoder == IF first THEN [some |-> TRUE, consumed |-> 0] ELSE arrow_ipc_stream
           opts == IF first THEN options ELSE arrow_insert_options
       IN  IF first /\ options = "bad"
           THEN \* ARROW_RETURN_NOT_OK(options.ReadFrom(options_doc))
                /\ arrow_insert_options' = NoOptions
                /\ UNCHANGED arrow_ipc_stream
                /\ ret' = Ret(op, "Invalid", NoValue)
           ELSE IF consume = "error"
           THEN \* ARROW_RETURN_NOT_OK(arrow_ipc_stream_->Consume(...))
                /\ arrow_insert_options' = opts
                /\ arrow_ipc_stream' = decoder
                /\ ret' = Ret(op, "Invalid", NoValue)
           ELSE IF consume = "more"
           THEN /\ arrow_insert_options' = opts
                /\ arrow_ipc_stream' = [decoder EXCEPT !.consumed = @ + 1]
                /\ ret' = Ret(op, "OK", NoValue)
           ELSE IF export = "error"
           THEN \* ARROW_RETURN_NOT_OK(arrow::ExportRecordBatchReader(...))
                /\ arrow_insert_options' = opts
                /\ arrow_ipc_stream' = decoder
                /\ ret' = Ret(op, "Invalid", NoValue)
           ELSE \* the insert, or the catch block: both reset the stream
                /\ arrow_insert_options' = NoOptions
                /\ arrow_ipc_stream' = NoDecoder
                /\ ret' = Ret(op, IF insert = "ok" THEN "OK" ELSE "UnknownError",
                              [NoValue EXCEPT !.kind = opts])
    /\ UNCHANGED <<current_query_result, current_schema, current_schema_patched,
                   prepared_statements, next_prepared_statement_id, engine,
                   filesystem, webdb>>

\* ------------------------------------------------ WebDB::CopyFileToPath
\* The calls go to the web filesystem: the buffered filesystem in between
\* passes them on.
\* The bytes of the buffer of the copy, scaled down from 16 * 1024
CopyBufferSize == 2

\* What a path holds: the file registered under it, or the host's file
Contents(path) ==
    IF by_name[path] # 0 /\ files[by_name[path]].proto = "BUFFER"
    THEN Data(files[by_name[path]].buf)
    ELSE host[IF by_name[path] # 0 THEN files[by_name[path]].url ELSE path]

\* The path the destination is opened under
CopyDestination(path, out) == path

\* auto src = fs.OpenFile(path, FILE_FLAGS_READ), up to the lookup.  The
\* result keeps what path and out held when the call began (arg, buf).
WebDBCopyFileToPath(t, path, out) ==
    /\ Ready(t)
    /\ t = ApiThread
    /\ CanRegister(path)
    /\ LET e == OpenLookup(path)
           r == [Result("WebDB::CopyFileToPath", TRUE, path, 0, 0)
                   EXCEPT !.url = out, !.arg = Contents(path), !.buf = Contents(out)]
       IN  /\ files' = e.files
           /\ by_id' = e.by_id
           /\ by_name' = e.by_name
           /\ next_id' = e.next_id
           /\ handles' = e.handles
           /\ thr' = [thr EXCEPT ![t] = [Idle EXCEPT !.pc = "o1", !.k = <<"cp1">>,
                                          !.h = e.h, !.f = e.f, !.name = path,
                                          !.url = out, !.cn = FALSE, !.r = r]]
           /\ res' = NoRes
    /\ UNCHANGED <<pinned, fmx, fms, collectors, ra, host, crashed, connection, webdb>>

\* auto dst = fs.OpenFile(..., FILE_FLAGS_WRITE | FILE_FLAGS_FILE_CREATE_NEW),
\* up to the lookup; an exception of the first open leaves the call
CopyOpenDst(t) ==
    /\ At(t, "cp1")
    /\ IF thr[t].h = 0
       THEN /\ Finish(t, thr[t].r)
            /\ UNCHANGED <<files, by_id, by_name, next_id, handles>>
       ELSE LET to == CopyDestination(thr[t].name, thr[t].url)
                e == OpenLookup(to)
            IN  /\ CanRegister(to)
                /\ files' = e.files
                /\ by_id' = e.by_id
                /\ by_name' = e.by_name
                /\ next_id' = e.next_id
                /\ handles' = e.handles
                /\ thr' = [thr EXCEPT ![t].pc = "o1", ![t].k = <<"cp2">>,
                                      ![t].src = thr[t].h, ![t].h = e.h,
                                      ![t].f = e.f, ![t].cn = TRUE]
                /\ UNCHANGED res
    /\ UNCHANGED <<pinned, fmx, fms, collectors, ra, host, crashed, connection, webdb>>

\* The next fs.Read(*src, buffer, buffer_size) of the loop
CopyReadNext(th) ==
    [th EXCEPT !.pc = "rd0", !.k = <<"cp3">>, !.h = th.src,
               !.f = handles[th.src].file, !.n = CopyBufferSize, !.ret = 0]

\* The next fs.Write(*dst, buffer, buffered) of the loop
CopyWriteNext(th, bytes) ==
    [th EXCEPT !.pc = "w0", !.k = <<"cp4">>, !.h = th.dst,
               !.f = handles[th.dst].file, !.buf = bytes, !.ret = 0]

\* ~WebFileHandle of a handle of the call, which then goes on at pc
CopyClose(th, h, pc) == [th EXCEPT !.pc = "c0", !.k = <<pc>>, !.h = h]

\* The loops: after the second open, a Read or a Write has returned.  An
\* exception of the second open destroys src; buffered == 0 ends the copy
\* with FileSync and destroys dst.
CopyLoop(t) ==
    /\ ~crashed
    /\ thr[t].pc \in {"cp2", "cp3", "cp4"}
    /\ LET th == thr[t]
           read == SubSeq(th.r.buf, Len(th.r.buf) - th.ret + 1, Len(th.r.buf))
           left == SubSeq(th.buf, th.ret + 1, Len(th.buf))
       IN  thr' = [thr EXCEPT ![t] =
              CASE th.pc = "cp2" /\ th.h = 0 -> CopyClose(th, th.src, "cp6")
                [] th.pc = "cp2" /\ th.h # 0 -> CopyReadNext([th EXCEPT !.dst = th.h])
                [] th.pc = "cp3" /\ th.ret = 0 -> CopyClose(th, th.dst, "cp5")
                [] th.pc = "cp3" /\ th.ret # 0 -> CopyWriteNext(th, read)
                [] th.pc = "cp4" /\ left # <<>> -> CopyWriteNext(th, left)
                [] th.pc = "cp4" /\ left = <<>> -> CopyReadNext(th)]
    /\ UNCHANGED <<files, by_id, by_name, next_id, handles, pinned, fmx, fms,
                   collectors, ra, host, res, crashed, connection, webdb>>

\* The end of the call: src is destroyed, the status is returned
CopyReturn(t) ==
    /\ ~crashed
    /\ thr[t].pc \in {"cp5", "cp6"}
    /\ IF thr[t].pc = "cp5"
       THEN /\ thr' = [thr EXCEPT ![t] = CopyClose(thr[t], thr[t].src, "cp6")]
            /\ UNCHANGED res
       ELSE Finish(t, thr[t].r)
    /\ UNCHANGED <<files, by_id, by_name, next_id, handles, pinned, fmx, fms,
                   collectors, ra, host, crashed, connection, webdb>>

\* ------------------------------------------------ WebDB::Open and Reset
\* std::make_shared<duckdb::DuckDB>(...) and LoadExtension: done, or an exception
DatabaseOutcomes == {"ok", "exception"}

\* *config_ = WebDBConfig::ReadFrom(args_json)
OpenConfig(args_json) == ReadFrom(args_json)

\* WebDB::Open(args_json)
Open(op, args_json, outcome) ==
    /\ ~crashed
    /\ database < MaxOpens
    /\ config' = OpenConfig(args_json)
    /\ IF outcome = "ok"
       THEN /\ connections' = 0
            /\ database' = database + 1
            /\ ret' = Ret(op, "OK", NoValue)
       ELSE /\ ret' = Ret(op, "Invalid", NoValue)
            /\ UNCHANGED <<connections, database>>
    /\ UNCHANGED <<current_query_result, current_schema, current_schema_patched,
                   prepared_statements, next_prepared_statement_id,
                   arrow_insert_options, arrow_ipc_stream, engine, filesystem>>

WebDBOpen(args_json, outcome) == Open("WebDB::Open", args_json, outcome)

\* WebDB::Reset: return Open()
WebDBReset(outcome) == Open("WebDB::Reset", OpenDefaultArgs, outcome)

\* WebDB::Connect
WebDBConnect ==
    /\ ~crashed
    /\ connections < MaxConnections
    /\ connections' = connections + 1
    /\ ret' = Ret("WebDB::Connect", "OK", NoValue)
    /\ UNCHANGED <<current_query_result, current_schema, current_schema_patched,
                   prepared_statements, next_prepared_statement_id,
                   arrow_insert_options, arrow_ipc_stream, engine, filesystem,
                   config, database>>

\* WebDB::Disconnect
WebDBDisconnect ==
    /\ ~crashed
    /\ connections > 0
    /\ connections' = connections - 1
    /\ ret' = Ret("WebDB::Disconnect", "OK", NoValue)
    /\ UNCHANGED <<current_query_result, current_schema, current_schema_patched,
                   prepared_statements, next_prepared_statement_id,
                   arrow_insert_options, arrow_ipc_stream, engine, filesystem,
                   config, database>>

\* ------------------------------------------------------------ the program
\* The registry under one name: the API thread registers, drops and collects
\* statistics; every thread opens files and closes handles.
OneName == {PathY}
OneSize == {1}
OneData == {<<1>>}

Next ==
    \/ \E n \in OneName, u \in Urls, z \in OneSize : FsRegisterFileURL(ApiThread, n, u, z)
    \/ \E n \in OneName, d \in OneData : FsRegisterFileBuffer(ApiThread, n, d)
    \/ \E t \in Threads : RegisterFileBufferClosed(t)
    \/ \E t \in Threads, h \in HandleIds : DropHandle(t, h)
    \/ \E t \in Threads : CloseTryLock(t)
    \/ \E t \in Threads : CloseCountDown(t)
    \/ \E t \in Threads : CloseErase(t)
    \/ \E n \in OneName : FsTryDropFile(ApiThread, n)
    \/ FsDropDanglingFiles(ApiThread)
    \/ \E t \in Threads, u \in OneName : FsOpenFile(t, u, FALSE)
    \/ \E t \in Threads : OpenLock(t)
    \/ \E t \in Threads, o \in OpenOutcomes : OpenHost(t, o)
    \/ \E t \in Threads : OpenAbort(t)
    \/ \E n \in OneName, e \in BOOLEAN : CollectFileStatistics(ApiThread, n, e)
    \/ \E t \in Threads : CollectAttach(t)

Spec == Init /\ [][Next]_vars

\* The facade: the API thread registers and drops files through WebDB; the
\* engine, on every thread, opens files and closes the handles it got.
NextFacade ==
    \/ \E n \in OneName, u \in Urls, z \in OneSize, d \in BufferedTryDropOutcomes :
          WebDBRegisterFileURL(ApiThread, n, u, z, d)
    \/ \E t \in Threads : WebDBPinURL(t)
    \/ \E n \in OneName, b \in OneData, d \in BufferedTryDropOutcomes :
          WebDBRegisterFileBuffer(ApiThread, n, b, d)
    \/ \E t \in Threads : WebDBStoreBuffer(t)
    \/ \E t \in Threads : RegisterFileBufferClosed(t)
    \/ \E t \in Threads : WebDBPinBuffer(t)
    \/ \E n \in OneName : WebDBDropFile(ApiThread, n)
    \/ \E t \in Threads : WebDBDropFileTry(t)
    \/ WebDBDropFiles(ApiThread)
    \/ \E t \in Threads, n \in OneName : WebDBDropFilesUnpin(t, n)
    \/ \E t \in Threads : WebDBDropFilesDangling(t)
    \/ \E t \in Threads, u \in OneName, cn \in BOOLEAN : FsOpenFile(t, u, cn)
    \/ \E t \in Threads : OpenLock(t)
    \/ \E t \in Threads, o \in OpenOutcomes : OpenHost(t, o)
    \/ \E t \in Threads : OpenRelock(t)
    \/ \E t \in Threads : OpenAbort(t)
    \/ \E t \in Threads : TruncateResize(t)
    \/ \E t \in Threads : TruncateCommit(t)
    \/ \E t \in Threads, h \in HandleIds : DropHandle(t, h)
    \/ \E t \in Threads : CloseTryLock(t)
    \/ \E t \in Threads : CloseCountDown(t)
    \/ \E t \in Threads : CloseErase(t)

SpecFacade == Init /\ [][NextFacade]_vars

\* The file of a run is set up under a free name
SetUpBuffer(t, name, data) == by_name[name] = 0 /\ FsRegisterFileBuffer(t, name, data)
SetUpURL(t, name, url) == by_name[name] = 0 /\ FsRegisterFileURL(t, name, url, Len(host[url]))

\* Races on one file: the API thread registers buffers under the name while
\* every thread opens the file, truncates it and writes to it.
SomeData == {<<1>>, <<1, 2>>}
Sizes == 0..MaxLen
Opens == {"plain", "inline"}

NextRace ==
    \/ \E n \in OneName, d \in SomeData : FsRegisterFileBuffer(ApiThread, n, d)
    \/ \E t \in Threads : RegisterFileBufferClosed(t)
    \/ \E t \in Threads, u \in OneName, cn \in BOOLEAN : FsOpenFile(t, u, cn)
    \/ \E t \in Threads : OpenLock(t)
    \/ \E t \in Threads, o \in Opens : OpenHost(t, o)
    \/ \E t \in Threads : OpenRelock(t)
    \/ \E t \in Threads, h \in HandleIds, z \in Sizes : FsTruncate(t, h, z)
    \/ \E t \in Threads : TruncateResize(t)
    \/ \E t \in Threads : TruncateCommit(t)
    \/ \E t \in Threads, h \in HandleIds, d \in SomeData : FsWrite(t, h, d)
    \/ \E t \in Threads : WriteLock(t)
    \/ \E t \in Threads : WriteAfterGrow(t)
    \/ \E t \in Threads : WriteAppend(t)
    \/ \E t \in Threads : WriteAppended(t)

SpecRace == Init /\ [][NextRace]_vars

\* File i/o, one call at a time: the file comes from a registration of the
\* free name or from an open that the host serves; its handles are sought,
\* read, written and truncated.
Datas == {<<>>, <<2>>, <<1, 2>>}

NextIO ==
    \/ \E n \in OneName, d \in Datas : SetUpBuffer(ApiThread, n, d)
    \/ \E n \in OneName, u \in Urls : SetUpURL(ApiThread, n, u)
    \/ \E u \in OneName, cn \in BOOLEAN : FsOpenFile(ApiThread, u, cn)
    \/ OpenLock(ApiThread)
    \/ \E o \in Opens : OpenHost(ApiThread, o)
    \/ OpenRelock(ApiThread)
    \/ \E h \in HandleIds, z \in Sizes : FsTruncate(ApiThread, h, z)
    \/ TruncateResize(ApiThread)
    \/ TruncateCommit(ApiThread)
    \/ \E h \in HandleIds, z \in Sizes : FsSeek(ApiThread, h, z)
    \/ \E h \in HandleIds, z \in Sizes : FsRead(ApiThread, h, z)
    \/ ReadLock(ApiThread)
    \/ ReadThrough(ApiThread)
    \/ \E h \in HandleIds, d \in Datas : FsWrite(ApiThread, h, d)
    \/ WriteLock(ApiThread)
    \/ WriteAfterGrow(ApiThread)
    \/ WriteAppend(ApiThread)
    \/ WriteAppended(ApiThread)

SpecIO == Init /\ [][NextIO]_vars

\* Positional i/o, one call at a time, on a file set up the same way.
NextAt ==
    \/ \E n \in OneName, d \in Datas : SetUpBuffer(ApiThread, n, d)
    \/ \E n \in OneName, u \in Urls : SetUpURL(ApiThread, n, u)
    \/ \E u \in OneName, cn \in BOOLEAN : FsOpenFile(ApiThread, u, cn)
    \/ OpenLock(ApiThread)
    \/ \E o \in Opens : OpenHost(ApiThread, o)
    \/ OpenRelock(ApiThread)
    \/ TruncateResize(ApiThread)
    \/ TruncateCommit(ApiThread)
    \/ \E h \in HandleIds, z \in Sizes, l \in Sizes : FsReadAt(ApiThread, h, z, l)
    \/ ReadAtLoop(ApiThread)
    \/ ReadLock(ApiThread)
    \/ ReadThrough(ApiThread)
    \/ \E h \in HandleIds, d \in Datas, l \in Sizes : FsWriteAt(ApiThread, h, d, l)
    \/ WriteAtLoop(ApiThread)
    \/ WriteLock(ApiThread)
    \/ WriteAfterGrow(ApiThread)
    \/ WriteAppend(ApiThread)
    \/ WriteAppended(ApiThread)

SpecAt == Init /\ [][NextAt]_vars

\* The same with a thread that keeps running: a call that can take a step
\* takes it
SpecAtFair == SpecAt /\ WF_vars(NextAt)

\* Reading a file that is registered again: the API thread registers the name
\* by URL, reads through a handle, and registers buffers under the same name.
NextReRead ==
    \/ \E n \in OneName, u \in Urls : SetUpURL(ApiThread, n, u)
    \/ \E n \in OneName, d \in Datas : FsRegisterFileBuffer(ApiThread, n, d)
    \/ RegisterFileBufferClosed(ApiThread)
    \/ \E h \in HandleIds, z \in Sizes : FsSeek(ApiThread, h, z)
    \/ \E h \in HandleIds, z \in Sizes : FsRead(ApiThread, h, z)
    \/ ReadLock(ApiThread)
    \/ ReadThrough(ApiThread)

SpecReRead == Init /\ [][NextReRead]_vars

\* A connection that runs and streams queries, fetches the chunks of the
\* stream, and inserts Arrow streams in between.
NextStream ==
    \/ \E o \in QueryOutcomes, i \in ImportOutcomes : RunQuery(MaxChunks, o, i)
    \/ \E k \in ChunkCounts, o \in QueryOutcomes, i \in ImportOutcomes : SendQuery(k, o, i)
    \/ \E o \in FetchOutcomes : FetchQueryResults(o)
    \/ \E p \in OptionsOutcomes, c \in ConsumeOutcomes, e \in ExportOutcomes,
          i \in InsertOutcomes : InsertArrowFromIPCStream(p, c, e, i)

SpecStream == Init /\ [][NextStream]_vars

\* A connection that prepares statements, runs them, streams them and closes
\* them, and fetches the chunks of the stream.
NextPrepared ==
    \/ \E o \in QueryOutcomes : CreatePreparedStatement(o)
    \/ \E id \in StatementIds, a \in ArgsOutcomes, o \in QueryOutcomes,
          i \in ImportOutcomes : RunPreparedStatement(id, a, o, MaxChunks, i)
    \/ \E id \in StatementIds, a \in ArgsOutcomes, o \in QueryOutcomes,
          k \in ChunkCounts, i \in ImportOutcomes : SendPreparedStatement(id, a, o, k, i)
    \/ \E id \in StatementIds : ClosePreparedStatement(id)
    \/ \E o \in FetchOutcomes : FetchQueryResults(o)

SpecPrepared == Init /\ [][NextPrepared]_vars

\* ------------------------------------------------------------- properties
\* The handles of a file whose Close has not yet counted them out
LiveHandles(f) ==
    Cardinality({h \in HandleIds : handles[h].file = f})
    + Cardinality({t \in Threads : thr[t].pc = "c1" /\ thr[t].f = f})

\* C1: in every reachable state the handle_count_ of every registered file is
\* the number of its live handles, the handles constructed for it and not yet
\* counted out by Close.
C1_HandleCount == \A f \in by_id : files[f].hc = LiveHandles(f)

\* A registered file with two handles, one of them being closed
C1_Witness ==
    \E f \in by_id :
        /\ files[f].hc = 2
        /\ \E t \in Threads : thr[t].pc = "c1" /\ thr[t].f = f
        /\ \E h \in HandleIds : handles[h].file = f

\* C2: the file of every live handle is present in files_by_name_ and in
\* files_by_id_.
C2_LiveHandleRegistered ==
    \A h \in HandleIds :
        handles[h].file # 0 =>
            /\ handles[h].file \in by_id
            /\ by_name[files[handles[h].file].name] = handles[h].file

\* A failed open has erased a file that another handle still holds
C2_Witness ==
    /\ res.op = "OpenFile" /\ ~res.ok
    /\ \E h \in HandleIds : handles[h].file = res.f /\ res.f \notin by_id

\* C3: while a name is pinned by a WebDB registration, its file is present in
\* both registry maps with a handle_count_ of at least 1, whatever the engine
\* opens and closes in the meantime.
C3_PinnedStaysRegistered ==
    \A n \in Names :
        pinned[n] # 0 =>
            LET f == handles[pinned[n]].file
            IN  f # 0 /\ f \in by_id /\ by_name[n] = f /\ files[f].hc >= 1

\* The engine's open of a pinned name has failed and the name is gone
C3_Witness ==
    /\ res.op = "OpenFile" /\ ~res.ok
    /\ pinned[res.name] # 0
    /\ by_name[res.name] = 0

\* C4: TryDropFile(name) returns true and leaves the file it found in neither
\* map if the file's handle_count_ is 0 (or no file has the name); it returns
\* false and leaves both maps as they are if the handle_count_ is above 0.
C4_TryDropFile ==
    [][\A n \in OneName :
          FsTryDropFile(ApiThread, n) =>
              LET f == by_name[n]
              IN  /\ res'.ok <=> (f = 0 \/ files[f].hc = 0)
                  /\ res'.ok => by_name'[n] = 0 /\ (f # 0 => f \notin by_id')
                  /\ ~res'.ok => by_id' = by_id /\ by_name' = by_name]_vars

\* A drop was refused: the file has a handle and is in both maps
C4_Witness ==
    /\ res.op = "TryDropFile" /\ ~res.ok
    /\ by_name[res.name] = res.f /\ res.f \in by_id /\ files[res.f].hc > 0

\* C5: RegisterFileURL(name, url) of a name that is registered with another
\* URL fails, returns no handle, and leaves both maps, every file record and
\* every handle as they are.
C5_RegisterOtherURL ==
    [][\A n \in OneName, u \in Urls, z \in OneSize :
          (FsRegisterFileURL(ApiThread, n, u, z)
             /\ by_name[n] # 0 /\ files[by_name[n]].url # u) =>
              /\ ~res'.ok /\ res'.h = 0
              /\ UNCHANGED <<by_id, by_name, files, handles, next_id>>]_vars

\* Such a registration was refused
C5_Witness ==
    /\ res.op = "RegisterFileURL" /\ ~res.ok
    /\ by_name[res.name] # 0
    /\ files[by_name[res.name]].url # res.url

\* What a RegisterFileBuffer of data must leave of file f
RegisteredAsBuffer(fs, f, data) ==
    /\ fs[f].proto = "BUFFER"
    /\ Data(fs[f].buf) = data
    /\ fs[f].size = Len(data)

\* C6: when RegisterFileBuffer(name, bytes) returns for a name that was
\* registered, the file's protocol is BUFFER and its contents and file_size_
\* are those of bytes, whatever the protocol was.
C6_ReRegisteredIsBuffer ==
    [][\A n \in OneName, d \in OneData :
          \/ by_name[n] # 0 /\ FsRegisterFileBuffer(ApiThread, n, d)
                /\ thr'[ApiThread].pc = "idle"
          \/ RegisterFileBufferClosed(ApiThread)
                /\ thr'[ApiThread].pc = "idle"
                /\ res'.name = n /\ res'.arg = d
          => RegisteredAsBuffer(files', res'.f, d)]_vars

\* RegisterFileBuffer has returned for a name that was a NATIVE file's
C6_Witness ==
    /\ res.op = "RegisterFileBuffer"
    /\ files[res.f].proto = "NATIVE"
    /\ files[res.f].buf.some

\* C7: a file's protocol is BUFFER if and only if it has a data_buffer_.
C7_BufferIffData ==
    \A f \in FileIds :
        files[f].proto # "NONE" => (files[f].proto = "BUFFER" <=> files[f].buf.some)

\* A NATIVE file with a data_buffer_, all calls completed
C7_Witness ==
    /\ \A t \in Threads : thr[t].pc = "idle"
    /\ \E f \in by_id : files[f].proto = "NATIVE" /\ files[f].buf.some

\* No call is running
Quiescent == \A t \in Threads : thr[t].pc = "idle"

\* C8: once every call has completed, the file_size_ of every BUFFER file is
\* the size of its data_buffer_.
C8_SizeIsBufferSize ==
    Quiescent =>
        \A f \in FileIds : files[f].proto = "BUFFER" => files[f].size = files[f].buf.size

\* A truncation has completed and left a file_size_ that is not the buffer's
C8_Witness ==
    /\ Quiescent
    /\ res.op = "Truncate"
    /\ files[res.f].proto = "BUFFER"
    /\ files[res.f].size # files[res.f].buf.size

C10_RoundTrip ==
    (/\ res.op = "ReadAt" /\ res.loc = 0
     /\ res.prev.op = "WriteAt" /\ res.prev.ok /\ res.prev.h = res.h
     /\ res.prev.loc = 0 /\ res.len = Len(res.prev.arg)
     /\ files[res.f].proto \in {"BUFFER", "NATIVE"})
    => res.buf = res.prev.arg

\* The round trip on a file that was not empty
C10_Witness ==
    /\ res.op = "ReadAt" /\ res.loc = 0
    /\ res.prev.op = "WriteAt" /\ res.prev.h = res.h /\ res.prev.loc = 0
    /\ res.len = Len(res.prev.arg) /\ res.len > 0
    /\ res.buf = res.prev.arg

C12_ReadAtEndReturnsNothing ==
    (res.op = "Read" /\ res.loc >= files[res.f].size) =>
        res.n = 0 /\ handles[res.h].pos = res.loc

\* A Read at the end of a NATIVE file has returned bytes of a window that was
\* filled before the file was registered again
C12_Witness ==
    /\ res.op = "Read" /\ res.loc >= files[res.f].size
    /\ files[res.f].proto = "NATIVE" /\ files[res.f].buf.some
    /\ res.n > 0 /\ handles[res.h].pos > res.loc

\* The collector of a file, if it has one, has the file's size
StatsFollow(fs, cs, f) ==
    (fs[f].stats /\ cs[fs[f].name] # -1) => cs[fs[f].name] = fs[f].size

\* C13: a write of n > 0 bytes to a NATIVE file at a position p beyond its
\* file_size_, sequential or positional, leaves file_size_ = p + n and the
\* file's statistics collector, if any, resized to that.
C13_WriteBeyondEndExtends ==
    [][\A t \in Threads :
          LET f == thr[t].f
              p == handles[thr[t].h].pos
          IN  /\ (WriteAppend(t) /\ thr[t].k = <<>> /\ Len(thr[t].buf) > 0
                     /\ p > files[f].size) =>
                      /\ files'[f].size = p + Len(thr[t].buf)
                      /\ StatsFollow(files', collectors', f)
              /\ (WriteAtLoop(t) /\ thr'[t].pc = "idle"
                     /\ files[f].proto = "NATIVE" /\ Len(res'.arg) > 0
                     /\ thr[t].loc > thr[t].fsz) =>
                      /\ files'[f].size = thr[t].loc + Len(res'.arg)
                      /\ StatsFollow(files', collectors', f)]_vars

\* A positional Write beyond the end of a NATIVE file has returned and the
\* file is as long as it was
C13_Witness ==
    /\ res.op = "WriteAt" /\ res.ok
    /\ files[res.f].proto = "NATIVE"
    /\ Len(res.arg) > 0
    /\ res.loc > files[res.f].size

\* The bytes of a file: of its data_buffer_, or of the host's file
FileBytes(f) ==
    IF files[f].proto = "BUFFER" THEN Data(files[f].buf) ELSE host[files[f].url]

\* C14 (what the call leaves): when the positional Write of len bytes at
\* location has returned on a BUFFER or NATIVE file, the len bytes are in the
\* file from location on and the handle's position is location + len.
C14_PositionalWriteWritesAll ==
    (res.op = "WriteAt" /\ res.ok /\ files[res.f].proto \in {"BUFFER", "NATIVE"}) =>
        /\ handles[res.h].pos = res.loc + Len(res.arg)
        /\ Len(FileBytes(res.f)) >= res.loc + Len(res.arg)
        /\ SubSeq(FileBytes(res.f), res.loc + 1, res.loc + Len(res.arg)) = res.arg

\* A positional Write at the end of a BUFFER file has returned without
\* writing a byte
C14_Witness ==
    /\ res.op = "WriteAt" /\ res.ok
    /\ files[res.f].proto = "BUFFER"
    /\ Len(res.arg) > 0
    /\ res.loc = files[res.f].size
    /\ handles[res.h].pos = res.loc

\* C15: every positional Read that has started returns.
C15_PositionalReadTerminates ==
    \A t \in Threads :
        (thr[t].pc # "idle" /\ thr[t].r.op = "ReadAt") ~> (thr[t].pc = "idle")

\* A positional Read across the end of the file: bytes were read, the last
\* underlying Read returned 0, and the loop goes on
C15_Witness ==
    \E t \in Threads :
        /\ thr[t].pc = "pr" /\ thr[t].r.op = "ReadAt"
        /\ thr[t].r.n > 0 /\ thr[t].ret = 0
        /\ PositionalGoesOn(thr[t].n - thr[t].ret, thr[t].loc, thr[t].fsz)

\* A connection that streams queries and prepared statements, one after the
\* other, and fetches the chunks of the stream.
NextSend ==
    \/ \E o \in QueryOutcomes : CreatePreparedStatement(o)
    \/ \E k \in ChunkCounts, o \in QueryOutcomes, i \in ImportOutcomes : SendQuery(k, o, i)
    \/ \E id \in StatementIds, a \in ArgsOutcomes, o \in QueryOutcomes,
          k \in ChunkCounts, i \in ImportOutcomes : SendPreparedStatement(id, a, o, k, i)
    \/ \E o \in FetchOutcomes : FetchQueryResults(o)

SpecSend == Init /\ [][NextSend]_vars

\* A step of one of the two calls that start a stream
SendStep ==
    \/ \E k \in ChunkCounts, o \in QueryOutcomes, i \in ImportOutcomes : SendQuery(k, o, i)
    \/ \E id \in StatementIds, a \in ArgsOutcomes, o \in QueryOutcomes,
          k \in ChunkCounts, i \in ImportOutcomes : SendPreparedStatement(id, a, o, k, i)

FetchStep == \E o \in FetchOutcomes : FetchQueryResults(o)

\* C16: a call that starts a stream and returns its schema leaves the new
\* result, whole, as the only one the connection holds, with the schema of
\* that result; the schema changes to that of another result in no other
\* step; and a batch that FetchQueryResults returns is the next chunk of the
\* result the connection holds, which is the one the schema belongs to.
C16_OneStreamInFlight ==
    [][ /\ (SendStep /\ ret'.status = "OK") =>
              /\ ret'.value.kind = "schema"
              /\ ret'.value.of = engine'.results
              /\ current_query_result'.id = ret'.value.of
              /\ current_query_result'.id # current_query_result.id
              /\ current_query_result'.chunks =
                    [i \in 1..Len(current_query_result'.chunks) |-> i]
              /\ current_schema' = ret'.value.of
              /\ current_schema_patched' = ret'.value.of
        /\ (current_schema' # current_schema /\ current_schema' # 0) =>
              (SendStep /\ ret'.status = "OK")
        /\ (FetchStep /\ ret'.value.kind = "batch") =>
              /\ ret'.value.of = current_schema
              /\ ret'.value.of = current_query_result.id
              /\ ret'.value.chunk = Head(current_query_result.chunks)
      ]_vars

\* SendPreparedStatement has started a stream of chunks in the place of an
\* earlier stream that had not reached its end
C16_Witness ==
    /\ ret.op = "SendPreparedStatement" /\ ret.status = "OK"
    /\ ret.replaced # 0
    /\ ret.replaced # ret.value.of
    /\ current_query_result.id = ret.value.of
    /\ Len(current_query_result.chunks) = MaxChunks

\* C17: SendQuery on a result of k chunks leaves the chunks 1..k to fetch; a
\* FetchQueryResults that returns without error returns the first chunk that
\* is left and takes that one chunk off, or, when none is left, returns null
\* and clears the result and both schemas; with no result it returns null and
\* changes nothing, and only a SendQuery gives the connection a result again.
C17_FetchInOrder ==
    [][ /\ \A k \in ChunkCounts :
              (/\ \E o \in QueryOutcomes, i \in ImportOutcomes : SendQuery(k, o, i)
               /\ ret'.status = "OK") =>
                  current_query_result'.chunks = [i \in 1..k |-> i]
        /\ (FetchStep /\ ret'.status = "OK") =>
              IF current_query_result = NoResult
              THEN /\ ret'.value = Null
                   /\ UNCHANGED <<current_query_result, current_schema,
                                  current_schema_patched>>
              ELSE IF current_query_result.chunks = <<>>
              THEN /\ ret'.value = Null
                   /\ current_query_result' = NoResult
                   /\ current_schema' = 0
                   /\ current_schema_patched' = 0
              ELSE /\ ret'.value = [kind |-> "batch", of |-> current_query_result.id,
                                    chunk |-> Head(current_query_result.chunks)]
                   /\ current_query_result'.chunks = Tail(current_query_result.chunks)
                   /\ \A i \in 1..Len(current_query_result'.chunks) :
                          current_query_result'.chunks[i] = ret'.value.chunk + i
        /\ (current_query_result = NoResult /\ current_query_result' # NoResult) =>
              \E k \in ChunkCounts, o \in QueryOutcomes, i \in ImportOutcomes :
                  SendQuery(k, o, i)
      ]_vars

\* The last chunk of a stream of MaxChunks chunks has been fetched: the
\* result is still held, with nothing left to fetch
C17_Witness ==
    /\ ret.op = "FetchQueryResults" /\ ret.status = "OK"
    /\ ret.value.kind = "batch" /\ ret.value.chunk = MaxChunks
    /\ current_query_result # NoResult
    /\ current_query_result.id = ret.value.of
    /\ current_query_result.chunks = <<>>

\* C18: a CreatePreparedStatement that returns an id returns one that no
\* statement was registered under when it was called, and leaves the
\* statement it has prepared registered under that id.
C18_FreshStatementId ==
    [][ ((\E o \in QueryOutcomes : CreatePreparedStatement(o)) /\ ret'.status = "OK") =>
            /\ prepared_statements[ret'.id] = 0
            /\ prepared_statements'[ret'.id] = ret'.stmt
      ]_vars

\* The counter has wrapped: CreatePreparedStatement has returned an id under
\* which an earlier statement is still registered
C18_Witness ==
    /\ ret.op = "CreatePreparedStatement" /\ ret.status = "OK"
    /\ prepared_statements[ret.id] # 0
    /\ prepared_statements[ret.id] # ret.stmt

\* The calls that take the id of a prepared statement
StatementCalls ==
    {"RunPreparedStatement", "SendPreparedStatement", "ClosePreparedStatement"}

\* C19: RunPreparedStatement, SendPreparedStatement and ClosePreparedStatement
\* called with an id that no statement is registered under return a KeyError
\* and leave the table of statements, the counter of ids and the streamed
\* result with its schemas as they were. (ret.id is the id the call was given.)
C19_UnknownIdIsKeyError ==
    [][ (ret'.op \in StatementCalls /\ prepared_statements[ret'.id] = 0) =>
            /\ ret'.status = "KeyError"
            /\ UNCHANGED <<prepared_statements, next_prepared_statement_id,
                           current_query_result, current_schema,
                           current_schema_patched>>
      ]_vars

\* RunPreparedStatement has returned a KeyError for an id whose statement was
\* closed, while a stream is in flight and another statement is open
C19_Witness ==
    /\ ret.op = "RunPreparedStatement" /\ ret.status = "KeyError"
    /\ prepared_statements[ret.id] = 0
    /\ next_prepared_statement_id > ret.id
    /\ \E id \in StatementIds : prepared_statements[id] # 0
    /\ current_query_result # NoResult
    /\ current_query_result.chunks # <<>>
    /\ current_schema = current_query_result.id

\* C20: an InsertArrowFromIPCStream that returns a failure leaves the
\* connection without decoder and without insert options.
C20_FailureResetsInsert ==
    [][ (ret'.op = "InsertArrowFromIPCStream" /\ ret'.status # "OK") =>
            /\ arrow_ipc_stream' = NoDecoder
            /\ arrow_insert_options' = NoOptions
      ]_vars

\* InsertArrowFromIPCStream has returned the failure of Consume or of the
\* export, and the connection still holds the decoder and the options
C20_Witness ==
    /\ ret.op = "InsertArrowFromIPCStream" /\ ret.status = "Invalid"
    /\ arrow_ipc_stream.some
    /\ arrow_insert_options # NoOptions

\* A step of a registration of the facade that the buffered filesystem refuses
RefusedStep ==
    \E n \in Names :
        \/ \E u \in Urls, z \in Sizes : WebDBRegisterFileURL(ApiThread, n, u, z, FALSE)
        \/ \E d \in Datas \cup SomeData : WebDBRegisterFileBuffer(ApiThread, n, d, FALSE)

\* C21: a WebDB::RegisterFileURL or WebDB::RegisterFileBuffer that the
\* buffered filesystem refuses returns Invalid with the message that the file
\* is still buffered, and leaves the pinned handles, the handles, the files
\* and both maps of the web filesystem as they were.
C21_RefusalChangesNothing ==
    [][ RefusedStep =>
            /\ res'.op \in {"WebDB::RegisterFileURL", "WebDB::RegisterFileBuffer"}
            /\ ~res'.ok
            /\ res'.err = StillBuffered
            /\ UNCHANGED <<pinned, handles, files, by_id, by_name, next_id>>
      ]_vars

\* The facade has refused to register a buffer under a name whose file is
\* pinned and registered
C21_Witness ==
    /\ res.op = "WebDB::RegisterFileBuffer" /\ ~res.ok
    /\ res.err = StillBuffered
    /\ pinned[res.name] # 0
    /\ handles[pinned[res.name]].file = by_name[res.name]
    /\ by_name[res.name] \in by_id

\* The facade opens databases, resets the database, and makes and ends
\* connections.
NextOpen ==
    \/ \E a \in ArgsJson, o \in DatabaseOutcomes : WebDBOpen(a, o)
    \/ \E o \in DatabaseOutcomes : WebDBReset(o)
    \/ WebDBConnect
    \/ WebDBDisconnect

SpecOpen == Init /\ [][NextOpen]_vars

\* C22: Reset leaves the configuration of the WebDB as it was.
C22_ResetKeepsConfig ==
    [][ (\E o \in DatabaseOutcomes : WebDBReset(o)) => config' = config ]_vars

\* Reset has returned OK on a database that was opened after the first one,
\* and the configuration is the default one
C22_Witness ==
    /\ ret.op = "WebDB::Reset" /\ ret.status = "OK"
    /\ database > 2
    /\ config = DefaultConfig

\* The facade copies files: a file is registered as a buffer and its handle
\* dropped, or it is the host's, and is copied to another path.
NextCopy ==
    \/ \E n \in Names, d \in Datas : SetUpBuffer(ApiThread, n, d)
    \/ \E h \in HandleIds : DropHandle(ApiThread, h)
    \/ CloseTryLock(ApiThread)
    \/ CloseCountDown(ApiThread)
    \/ CloseErase(ApiThread)
    \/ \E path \in Names, out \in Names : WebDBCopyFileToPath(ApiThread, path, out)
    \/ CopyOpenDst(ApiThread)
    \/ CopyLoop(ApiThread)
    \/ CopyReturn(ApiThread)
    \/ OpenLock(ApiThread)
    \/ \E o \in OpenOutcomes : OpenHost(ApiThread, o)
    \/ OpenRelock(ApiThread)
    \/ OpenAbort(ApiThread)
    \/ TruncateResize(ApiThread)
    \/ TruncateCommit(ApiThread)
    \/ ReadLock(ApiThread)
    \/ ReadThrough(ApiThread)

SpecCopy == Init /\ [][NextCopy]_vars

\* C23: when CopyFileToPath(path, out) with out another path than path has
\* returned OK, path holds what it held when the call began, and out holds
\* the same.
C23_CopyCopies ==
    (res.op = "WebDB::CopyFileToPath" /\ res.ok /\ res.url # res.name) =>
        /\ Contents(res.name) = res.arg
        /\ Contents(res.url) = res.arg

\* CopyFileToPath has returned OK for a file of two bytes that was registered
\* as a buffer: the file is empty and the other path holds what it held
C23_Witness ==
    /\ res.op = "WebDB::CopyFileToPath" /\ res.ok /\ res.url # res.name
    /\ Len(res.arg) = 2
    /\ by_name[res.name] # 0 /\ files[by_name[res.name]].proto = "BUFFER"
    /\ Contents(res.name) = <<>>
    /\ Contents(res.url) = res.buf

\* C24: a Close that counts out the last handle of a registered file goes on
\* to the host's close and the erasure from both maps when the file is NATIVE
\* or HTTP, and returns when it is BUFFER, the file staying in both maps with
\* handle_count_ 0; the erasure leaves the file in neither map.
C24_LastClose ==
    [][ \A t \in Threads :
          LET f == thr[t].f
              name == files[f].name
          IN  /\ (CloseCountDown(t) /\ files[f].hc = 1 /\ f \in by_id) =>
                    IF files[f].proto = "BUFFER"
                    THEN /\ thr'[t].pc # "c2"
                         /\ f \in by_id' /\ by_name'[name] = f
                         /\ files'[f].hc = 0
                    ELSE thr'[t].pc = "c2"
              /\ CloseErase(t) => (f \notin by_id' /\ by_name'[name] = 0)
      ]_vars

\* The last handle of a NATIVE or HTTP file was closed while another Close
\* held the file's lock: no call is running, no handle is left, and the file
\* is still in both maps
C24_Witness ==
    /\ res.op = "Close"
    /\ \A t \in Threads : thr[t].pc = "idle"
    /\ res.f \in by_id
    /\ files[res.f].proto \in {"NATIVE", "HTTP"}
    /\ files[res.f].hc = 0
    /\ \A h \in HandleIds : ~handles[h].used

\* C25: once an OpenFile whose host open failed has returned its error, the
\* process is running, the file is in neither files_by_name_ nor files_by_id_,
\* and the file's handle_count_ counts only its live handles, so not the handle
\* the failed open created.
C25_FailedOpenLeavesNothing ==
    (res.op = "OpenFile" /\ ~res.ok) =>
        /\ ~crashed
        /\ res.f \notin by_id
        /\ by_name[res.name] # res.f
        /\ files[res.f].hc = LiveHandles(res.f)

\* A failed open of a file nobody else held has returned through Close's
\* second erasure of the file
C25_Witness ==
    /\ res.op = "OpenFile"
    /\ ~res.ok
    /\ crashed
    /\ res.f \notin by_id
    /\ \A h \in HandleIds : handles[h].file # res.f

\* C26: an open of a NATIVE or HTTP file to which the host returns the whole
\* file in a buffer leaves the file with protocol BUFFER, a data_buffer_ of
\* file_size_ bytes that are the host's, and the data_url_ it had; a BUFFER
\* file stays a BUFFER file, and a Read of a BUFFER file returns at once,
\* without the host's read and without a read-ahead buffer.
C26_InlinePromotes ==
    [][/\ OpenHost(ApiThread, "inline") =>
              LET f == thr[ApiThread].f
              IN  /\ files[f].proto \in {"NATIVE", "HTTP"}
                  /\ files'[f].proto = "BUFFER"
                  /\ files'[f].buf.size = files'[f].size
                  /\ Data(files'[f].buf) = host[files[f].url]
                  /\ files'[f].url = files[f].url
       /\ \A f \in by_id \cap by_id' :
              files[f].proto = "BUFFER" => files'[f].proto = "BUFFER"
       /\ \A t \in Threads :
              (thr[t].pc = "rd0" /\ thr'[t].pc # "rd0"
                                 /\ files[thr[t].f].proto = "BUFFER") =>
                  /\ thr'[t].pc # "rd1"
                  /\ ra' = ra
                  /\ host' = host
                  /\ (IF thr[t].k = <<>> THEN res'.buf ELSE thr'[t].r.buf)
                        = thr[t].r.buf
                        \o BufferRead(Data(files[thr[t].f].buf),
                                      handles[thr[t].h].pos, thr[t].n)]_vars

\* A Read has returned bytes of a file that an open had promoted: it is a
\* BUFFER file that still has its data_url_
C26_Witness ==
    /\ res.op = "Read"
    /\ res.buf # <<>>
    /\ res.f \in by_id
    /\ files[res.f].proto = "BUFFER"
    /\ files[res.f].url # NoUrl

\* Threads that share the handles of one host file: the API thread registers
\* the local file by URL and opens it, and every thread reads, writes and
\* truncates through the handles, one call per handle at a time.
ShareSizes == {0, 1}
ShareData == {<<2>>}

NextShare ==
    \/ SetUpURL(ApiThread, PathY, PathY)
    \/ FsOpenFile(ApiThread, PathY, FALSE)
    \/ OpenLock(ApiThread)
    \/ OpenHost(ApiThread, "plain")
    \/ \E t \in Threads, h \in HandleIds, z \in ShareSizes : FsSeek(t, h, z)
    \/ \E t \in Threads, h \in HandleIds, z \in Sizes : FsRead(t, h, z)
    \/ \E t \in Threads : ReadLock(t)
    \/ \E t \in Threads : ReadThrough(t)
    \/ \E t \in Threads, h \in HandleIds, d \in ShareData : FsWrite(t, h, d)
    \/ \E t \in Threads : WriteLock(t)
    \/ \E t \in Threads : WriteAppend(t)
    \/ \E t \in Threads : WriteAppended(t)
    \/ \E t \in Threads, h \in HandleIds, z \in ShareSizes : FsTruncate(t, h, z)
    \/ \E t \in Threads : TruncateResize(t)
    \/ \E t \in Threads : TruncateCommit(t)

SpecShare == Init /\ [][NextShare]_vars

\* Whether a write or a truncation of file f has changed the file and has not
\* yet invalidated the read-ahead buffers
Changing(f) ==
    \E t \in Threads : thr[t].f = f /\ thr[t].pc \in {"wn2", "t1"}

\* Whether every window of a file that no write or truncation is changing
\* holds the bytes the host's file has now
WindowsFresh ==
    \A t \in Threads :
        LET w == ra[t]
        IN  (w.file \in by_id /\ ~Changing(w.file)) =>
                w.data = HostRead(files[w.file].url, Len(w.data), w.ofs)

\* C27: the step that completes a Write or a Truncate of a file f leaves no
\* thread's read-ahead buffer with a window of f; and whenever no write or
\* truncation of f is under way, every window of f holds the bytes the host's
\* file has now, so no read is served bytes fetched before a completed write
\* or truncation changed them.
C27_WritesInvalidateWindows ==
    [][/\ (res' # res /\ res'.op \in {"Write", "Truncate"} /\ res'.ok) =>
              \A t \in Threads : ra'[t].file # res'.f
       /\ WindowsFresh']_vars

\* A Write has changed the host's file under a window that another thread
\* fetched before, and is about to invalidate the read-ahead buffers
C27_Witness ==
    \E t \in Threads, u \in Threads :
        /\ t # u
        /\ thr[t].pc = "wn2"
        /\ ra[u].file = thr[t].f
        /\ ra[u].data # HostRead(files[thr[t].f].url, Len(ra[u].data), ra[u].ofs)

\* C28: a thread that reads through a read-ahead buffer reads through the
\* buffer stored under its own thread id in readahead_buffers_, whichever
\* threads have used the handle before.
C28_OwnBufferOnly ==
    \A t \in Threads : thr[t].pc = "rd1" => thr[t].rb = t

\* Two threads are reading through the same read-ahead buffer at once, one of
\* them through a handle that had resolved the other thread's buffer
C28_Witness ==
    \E t \in Threads, u \in Threads :
        /\ t # u
        /\ thr[t].pc = "rd1"
        /\ thr[u].pc = "rd1"
        /\ thr[t].rb = u
        /\ thr[u].rb = u
        /\ handles[thr[t].h].ra = u

\* Whether thread t holds the file_mutex_ of some file, shared or exclusive
HoldsFileLock(t) ==
    \E f \in FileIds : fmx[f] = t \/ t \in fms[f]

\* Where a thread's next statement acquires fs_mutex_: the fs_guard of Close,
\* its fs_guard.lock() after the host's close, the fs_guard.lock() of
\* OpenFile's catch block, and InvalidateReadAheads at the end of Truncate and
\* of Write's append
AcquiresFsMutex == {"c1", "c2", "o_fail", "t1", "wn2"}

\* C29: no thread that holds the file_mutex_ of a file, shared or exclusive,
\* goes on to acquire fs_mutex_.
C29_NoFsMutexUnderFileLock ==
    \A t \in Threads : thr[t].pc \in AcquiresFsMutex => ~HoldsFileLock(t)

\* Close has locked the file with try_lock, has counted the last handle out
\* under fs_mutex_, and is about to lock fs_mutex_ again for the erasure
C29_Witness ==
    \E t \in Threads :
        /\ thr[t].pc = "c2"
        /\ thr[t].have
        /\ fmx[thr[t].f] = t

\* Threads that share the handles of one buffer: the API thread registers
\* the buffer and opens it, and every thread reads, writes and truncates
\* through the handles, one call per handle at a time.
NextShareBuffer ==
    \/ \E d \in SomeData : SetUpBuffer(ApiThread, PathY, d)
    \/ FsOpenFile(ApiThread, PathY, FALSE)
    \/ OpenLock(ApiThread)
    \/ \E t \in Threads, h \in HandleIds, z \in ShareSizes : FsSeek(t, h, z)
    \/ \E t \in Threads, h \in HandleIds, z \in Sizes : FsRead(t, h, z)
    \/ \E t \in Threads : ReadLock(t)
    \/ \E t \in Threads, h \in HandleIds, d \in ShareData : FsWrite(t, h, d)
    \/ \E t \in Threads : WriteLock(t)
    \/ \E t \in Threads : WriteAfterGrow(t)
    \/ \E t \in Threads, h \in HandleIds, z \in ShareSizes : FsTruncate(t, h, z)
    \/ \E t \in Threads : TruncateResize(t)
    \/ \E t \in Threads : TruncateCommit(t)

SpecShareBuffer == Init /\ [][NextShareBuffer]_vars

\* Whether a write of file f has grown the file through Truncate, which
\* changed file_size_ and the buffer's size, and has not yet copied its bytes
MidWrite(f) ==
    \E u \in Threads : thr[u].f = f /\ thr[u].pc = "w1"

\* Whether thread t is between the resize and the new file_size_ of a
\* Truncate, or inside the read-ahead of a Read
InsideTruncate(t) == thr[t].pc = "t1"
InsideRead(t) == thr[t].pc = "rd1"

\* Whether the changing part of a Truncate has the file to itself
Exclusive ==
    \A t \in Threads : \A u \in Threads \ {t} :
        (InsideTruncate(t) /\ thr[u].f = thr[t].f) =>
            ~InsideTruncate(u) /\ ~InsideRead(u)

\* C30: while a thread is inside the part of a Truncate that changes a file,
\* no other thread is inside a Truncate or a Read of the same file; and no
\* Read of a file takes its bytes while a Write of the file has changed the
\* file's size and not yet its data.
C30_WritesAtomic ==
    [][/\ Exclusive'
       /\ \A t \in Threads :
              (thr[t].pc = "rd0" /\ thr'[t].pc # "rd0") => ~MidWrite(thr[t].f)]_vars

\* A Read has returned a byte that nobody wrote, from the part by which a
\* Write of another thread has grown the buffer before copying its bytes
C30_Witness ==
    /\ res.op = "Read"
    /\ \E i \in 1..Len(res.buf) : res.buf[i] = Uninit
    /\ MidWrite(res.f)

\* One thread that collects statistics of a file: the file is registered or
\* opened, its collector is attached and detached, and the file is written
\* and truncated.
NextStats ==
    \/ \E d \in SomeData : SetUpBuffer(ApiThread, PathY, d)
    \/ SetUpURL(ApiThread, PathY, PathY)
    \/ \E e \in BOOLEAN : CollectFileStatistics(ApiThread, PathY, e)
    \/ CollectAttach(ApiThread)
    \/ CloseTryLock(ApiThread)
    \/ CloseCountDown(ApiThread)
    \/ \E cn \in BOOLEAN : FsOpenFile(ApiThread, PathY, cn)
    \/ OpenLock(ApiThread)
    \/ \E o \in Opens : OpenHost(ApiThread, o)
    \/ OpenRelock(ApiThread)
    \/ \E h \in HandleIds, z \in Sizes : FsSeek(ApiThread, h, z)
    \/ \E h \in HandleIds, d \in ShareData : FsWrite(ApiThread, h, d)
    \/ WriteLock(ApiThread)
    \/ WriteAfterGrow(ApiThread)
    \/ WriteAppend(ApiThread)
    \/ WriteAppended(ApiThread)
    \/ \E h \in HandleIds, z \in Sizes : FsTruncate(ApiThread, h, z)
    \/ TruncateResize(ApiThread)
    \/ TruncateCommit(ApiThread)

SpecStats == Init /\ [][NextStats]_vars

\* C31: the step that completes a Truncate, a Write or an OpenFile on a file
\* that has a statistics collector leaves the collector at the file_size_
\* the file has after the operation.
C31_StatsFollowSize ==
    [][(res' # res /\ res'.op \in {"Truncate", "Write", "OpenFile"} /\ res'.ok
           /\ res'.f \in by_id') =>
          StatsFollow(files', collectors', res'.f)]_vars

\* A Truncate has returned on a file whose collector has another size than
\* the file
C31_Witness ==
    /\ res.op = "Truncate"
    /\ res.ok
    /\ res.f \in by_id
    /\ files[res.f].stats
    /\ collectors[files[res.f].name] \notin {-1, files[res.f].size}

\* One thread that resizes a registered buffer again and again, by
\* truncations to sizes up to MaxResize.
NextResize ==
    \/ \E d \in SomeData : SetUpBuffer(ApiThread, PathY, d)
    \/ \E h \in HandleIds, z \in 0..MaxResize : FsTruncate(ApiThread, h, z)
    \/ TruncateResize(ApiThread)
    \/ TruncateCommit(ApiThread)

SpecResize == Init /\ [][NextResize]_vars

\* C32: every Resize(n) of a data buffer leaves size_ = n and size_ <=
\* capacity_, keeps the first min(previous size_, n) bytes, and leaves the
\* capacity max(2*cap + cap/4, n) if n > cap, n if n < cap/2, and cap
\* otherwise, cap being the capacity before the call.
C32_ResizeKeepsBuffer ==
    [][\A t \in Threads :
          (thr[t].pc = "t0" /\ thr'[t].pc = "t1"
               /\ files[thr[t].f].proto = "BUFFER") =>
              LET b == files[thr[t].f].buf
                  after == files'[thr[t].f].buf
                  n == thr[t].n
                  cap == Len(b.mem)
                  kept == Min(b.size, n)
              IN  /\ after.size = n
                  /\ after.size <= Len(after.mem)
                  /\ Take(after.mem, kept) = Take(b.mem, kept)
                  /\ Len(after.mem) = IF n > cap
                                      THEN Max(2 * cap + (cap \div 4), n)
                                      ELSE IF n < (cap \div 2) THEN n ELSE cap]_vars

\* A buffer has grown to more than it was asked for, by twice its capacity
\* and a quarter, and was then cut within its capacity
C32_Witness ==
    /\ res.op = "Truncate"
    /\ res.f \in by_id
    /\ Len(files[res.f].buf.mem) = 9
    /\ files[res.f].buf.size = 5

\* C33: between the critical sections of fs_mutex_, a file is stored in
\* files_by_name_ under its name if and only if it is stored in files_by_id_
\* under its id, and every entry of files_by_name_ is a file of files_by_id_.
C33_MapsAgree ==
    /\ \A f \in FileIds :
           f \in by_id <=> (files[f].proto # "NONE" /\ by_name[files[f].name] = f)
    /\ \A n \in Names : by_name[n] # 0 => by_name[n] \in by_id

\* A Close has erased the name of a file that was registered while the
\* Close was at the host: the new file is in files_by_id_ only
C33_Witness ==
    /\ res.op = "Close"
    /\ \E f \in by_id : by_name[files[f].name] = 0 /\ f # res.f

\* C34: every Close that goes on to erase its file from files_by_id_ finds
\* the file's id in files_by_id_.
C34_EraseFindsFile ==
    [][\A t \in Threads :
          (thr[t].pc = "c2" /\ thr'[t].pc # "c2") => thr[t].f \in by_id]_vars

\* A Close is at the host's close for a file that is no longer in
\* files_by_id_, and will erase it when the host returns
C34_Witness ==
    \E t \in Threads : thr[t].pc = "c2" /\ thr[t].f \notin by_id

\* C35: every Write that copies its bytes into the data_buffer_ of a BUFFER
\* file does so with position_ + nr_bytes <= the size of the buffer, also
\* after it has released the file's lock to grow the buffer.
C35_CopyStaysInBuffer ==
    [][\A t \in Threads :
          LET f == thr[t].f
              pos == handles[thr[t].h].pos
          IN  (/\ thr'[t].pc # thr[t].pc
               /\ \/ thr[t].pc = "w1"
                  \/ /\ thr[t].pc = "w0"
                     /\ files[f].proto = "BUFFER"
                     /\ thr'[t].pc # "t0") =>
                  pos + Len(thr[t].buf) <= files[f].buf.size]_vars

\* A Write has grown the buffer, another thread has truncated the file since,
\* and the Write can lock the file again and copy past the end of the buffer
C35_Witness ==
    \E t \in Threads :
        /\ thr[t].pc = "w1"
        /\ FileLockFree(thr[t].f)
        /\ handles[thr[t].h].pos + Len(thr[t].buf) > files[thr[t].f].buf.size

\* The steps a thread takes inside a call it has started: they are enabled
\* when the lock the thread waits for is free, and when the host returns
Step(t) ==
    \/ RegisterFileBufferClosed(t)
    \/ CloseTryLock(t)
    \/ CloseCountDown(t)
    \/ CloseErase(t)
    \/ OpenLock(t)
    \/ \E o \in OpenOutcomes : OpenHost(t, o)
    \/ OpenAbort(t)
    \/ CollectAttach(t)
    \/ ReadLock(t)
    \/ ReadThrough(t)
    \/ WriteLock(t)
    \/ WriteAfterGrow(t)
    \/ WriteAppend(t)
    \/ WriteAppended(t)
    \/ TruncateResize(t)
    \/ TruncateCommit(t)

\* The calls that change the registry, made by the API thread
RegistryCall ==
    \/ \E n \in OneName, u \in OneName, z \in OneSize : FsRegisterFileURL(ApiThread, n, u, z)
    \/ \E n \in OneName, d \in OneData : FsRegisterFileBuffer(ApiThread, n, d)
    \/ \E n \in OneName : FsTryDropFile(ApiThread, n)
    \/ FsDropDanglingFiles(ApiThread)
    \/ \E u \in OneName : FsOpenFile(ApiThread, u, FALSE)
    \/ \E n \in OneName, e \in BOOLEAN : CollectFileStatistics(ApiThread, n, e)

\* The calls of a worker thread on the handle it was given: it reads a byte,
\* writes the byte the files hold, and truncates to one byte
WorkerHandle == MaxHandles
HandleCall(t) ==
    \/ FsRead(t, WorkerHandle, 1)
    \/ \E d \in OneData : FsWrite(t, WorkerHandle, d)
    \/ \E z \in OneSize : FsTruncate(t, WorkerHandle, z)

\* Threads that call the filesystem concurrently: the API thread registers,
\* opens, drops and closes the registration's handle, the others work on a
\* handle
NextLive ==
    \/ RegistryCall
    \/ DropHandle(ApiThread, 1)
    \/ \E t \in Threads \ {ApiThread} : HandleCall(t)
    \/ \E t \in Threads : Step(t)

\* The threads run: a thread inside a call keeps getting scheduled, and a lock
\* that is free again and again is acquired in the end
SpecLive == Init /\ [][NextLive]_vars /\ \A t \in Threads : SF_vars(Step(t))

\* C36: concurrent threads running OpenFile, Read, Write, Truncate, Close,
\* RegisterFileURL, RegisterFileBuffer, TryDropFile, DropDanglingFiles and
\* CollectFileStatistics never deadlock: every call a thread has started
\* completes in the end, also when it fails, and the thread then holds no
\* file lock.
C36_OperationsComplete ==
    \A t \in Threads :
        (thr[t].pc # "idle") ~> (thr[t].pc = "idle" /\ ~HoldsFileLock(t))

\* A worker waits for the lock of a file while the API thread holds it
\* inside Close or OpenFile
C36_Witness ==
    /\ ~crashed
    /\ \E t \in Threads \ {ApiThread} :
          /\ thr[t].pc \in {"rd0", "w0", "t0"}
          /\ fmx[thr[t].f] = ApiThread
          /\ thr[ApiThread].pc \in {"c1", "c2", "o2", "o_fail"}

\* A connection that runs queries and prepared statements to their end while
\* a stream may be in flight, and fetches from the stream.
NextRun ==
    \/ \E o \in QueryOutcomes : CreatePreparedStatement(o)
    \/ \E k \in ChunkCounts, o \in QueryOutcomes, i \in ImportOutcomes : RunQuery(k, o, i)
    \/ \E id \in StatementIds, a \in ArgsOutcomes, o \in QueryOutcomes,
          i \in ImportOutcomes : RunPreparedStatement(id, a, o, MaxChunks, i)
    \/ \E k \in ChunkCounts, o \in QueryOutcomes, i \in ImportOutcomes : SendQuery(k, o, i)
    \/ \E o \in FetchOutcomes : FetchQueryResults(o)

SpecRun == Init /\ [][NextRun]_vars

\* The stream of the connection: the result in flight and its two schemas
Stream == <<current_query_result, current_schema, current_schema_patched>>

C38_ErrorKeepsPins ==
    [][ ( /\ res' # res
          /\ res'.op \in {"WebDB::RegisterFileURL", "WebDB::RegisterFileBuffer"}
          /\ ~res'.ok ) =>
            (pinned' = pinned /\ thr[ApiThread].pin = 0)
      ]_vars

\* WebDB::RegisterFileURL has unpinned the name, and the file is still
\* registered with another URL
C38_Witness ==
    /\ ~crashed
    /\ thr[ApiThread].pc = "wu1"
    /\ thr[ApiThread].pin # 0
    /\ pinned[thr[ApiThread].name] = 0
    /\ by_name[thr[ApiThread].name] # 0
    /\ files[by_name[thr[ApiThread].name]].url # thr[ApiThread].url

\* C39: CollectFileStatistics with an absent collector, on a registered file
\* that has a collector, detaches the collector and completes without a call
\* through the absent collector; with a collector, on a file that has none,
\* it attaches the collector, resized to the file's file_size_.
C39_CollectorAttachDetach ==
    [][\A t \in Threads :
          (thr[t].pc = "s1" /\ thr'[t].pc # "s1") =>
              LET f == thr[t].f
              IN  /\ ~crashed'
                  /\ files'[f].stats = thr[t].have
                  /\ thr[t].have => collectors'[files[f].name] = files[f].size
      ]_vars

\* The collector of a file was detached, and the call through the absent
\* collector took the process down
C39_Witness ==
    /\ crashed
    /\ \E t \in Threads :
          /\ thr[t].pc = "c0"
          /\ thr[t].r.op = "CollectFileStatistics"
          /\ thr[t].r.f \in by_id
          /\ ~files[thr[t].r.f].stats
          /\ collectors[thr[t].r.name] = -1

\* C40: between the calls of InsertArrowFromIPCStream the connection has a
\* partial IPC decoder only when it has stored insert options, so the
\* assertion before the table function is built holds; and after a call that
\* consumed the end of the stream and returned OK it has neither.
C40_DecoderHasOptions ==
    /\ arrow_ipc_stream.some => arrow_insert_options \in {"create", "insert"}
    /\ ( /\ ret.op = "InsertArrowFromIPCStream"
         /\ ret.status = "OK"
         /\ ret.value.kind # "none" ) =>
            (arrow_ipc_stream = NoDecoder /\ arrow_insert_options = NoOptions)

\* A call has returned with a part of a stream consumed: the connection holds
\* the decoder and the options of the first call
C40_Witness ==
    /\ ret.op = "InsertArrowFromIPCStream"
    /\ ret.status = "OK"
    /\ arrow_ipc_stream.some
    /\ arrow_ipc_stream.consumed = MaxParts
    /\ arrow_insert_options = "create"

====
